---- MODULE Spec2Model ----
(***************************************************************************)
(* Build orchestrator of GameForge (ProjectsService): job records, the     *)
(* asynchronous pipeline runBuild, cancelBuild, rebuild and the map from   *)
(* job id to the live Unity child process.                                 *)
(*                                                                         *)
(* Every await of the service is a step boundary: a database read or      *)
(* write lands atomically, the code between two awaits runs atomically     *)
(* (single-threaded event loop).  A mongoose document is modelled as the   *)
(* in-memory copy `doc` of the actor that loaded it plus the set `dirty`   *)
(* of modified paths; save() writes exactly the dirty paths.               *)
(***************************************************************************)
EXTENDS Integers, FiniteSets, Sequences, TLC

\* ---------------------------------------------------------------- bounds
MaxRuns == 2        \* pipeline runs started per job (submit + rebuilds)
MaxCancels == 1     \* cancel requests handled per job
MaxFaults == 1      \* failures the environment injects in one behaviour
MaxUpdates == 1     \* update requests handled per job
MaxTime == 3000     \* last value of the clock, in milliseconds
TickMs == 500       \* granularity of the clock, in milliseconds

JobIds == {"p1"}
RunIds == 1..MaxRuns

\* ------------------------------------------------------------- vocabulary
None == "none"
ErrCancelled == "Cancelled by user"
ErrTemplate == "Template not found"
ErrToolPath == "UNITY_EDITOR_PATH env var is required to run Unity builds"
ErrNoIndex == "WebGL build did not produce index.html"
ErrNoApk == "Android build did not produce an APK"
ErrIo == "io error"
ErrSpawn == "spawn ENOENT"
ErrSave == "save failed"

UnityError(code) ==
  IF code = "null" THEN "Unity exited with code null. Output tail: "
  ELSE "Unity exited with code 1. Error summary: ..."

\* Size of that message in characters, from the size of the captured output
\* and of the summary extractUnityErrorSummary returns for it: the summary
\* is clipped to its last 6000 characters (line 1881), the tail to the last
\* 4000 (line 2011).
SummaryClip == 6000
TailClip == 4000
Min(a, b) == IF a < b THEN a ELSE b
\* 'Unity exited with code ' + String(code) + '. '
PrefixLen(code) == 23 + (IF code = "null" THEN 4 ELSE 1) + 2
\* the summary lengths extractUnityErrorSummary can return for n characters
SummaryLens(n) == {0, Min(n, 1), Min(n, SummaryClip)}
UnityErrorLen(code, n, summary) ==
  PrefixLen(code) +
    (IF summary > 0 THEN 15 + summary          \* 'Error summary:\n' + summary
     ELSE 13 + Min(n, TailClip))               \* 'Output tail: ' + tail

Fields == {"status", "error", "resultStorageKey", "webglZipStorageKey",
           "webglIndexStorageKey", "androidApkStorageKey", "previewImageUrl",
           "screenshotUrls", "previewVideoUrl", "buildTimings", "buildTarget",
           "aiUnityConfig"}

ResultRefs == {"resultStorageKey", "webglZipStorageKey",
               "webglIndexStorageKey", "androidApkStorageKey"}
MediaRefs == {"previewImageUrl", "screenshotUrls", "previewVideoUrl"}

\* buildTimings: timestamps are abstract.  startedAt: 0 = absent, r = the
\* start of run r; finishedAt: absent, or who wrote it ("run", "cancel");
\* durationMs: present or not; steps: the step names that have a duration.
NoTimings == [startedAt |-> 0, finishedAt |-> None, durationMs |-> FALSE, steps |-> {}]

\* a media reference is absent or a URL
Url == "url"

NoProject ==
  [exists |-> FALSE, status |-> None, error |-> None, buildTarget |-> None,
   aiUnityConfig |-> FALSE,
   resultStorageKey |-> None, webglZipStorageKey |-> None,
   webglIndexStorageKey |-> None, androidApkStorageKey |-> None,
   previewImageUrl |-> None, screenshotUrls |-> None, previewVideoUrl |-> None,
   buildTimings |-> NoTimings, buildLogLastLine |-> ""]

\* projectModel.create({... status: 'queued', buildTarget ...})
NewProject(target, aiCfg) ==
  [NoProject EXCEPT !.exists = TRUE, !.status = "queued",
                    !.buildTarget = target, !.aiUnityConfig = aiCfg]

\* ------------------------------------------------- aiUnityConfig values
\* A JavaScript value: its typeof ('array' for Array.isArray), a number in
\* tenths (timeScale 1.0 is 10) or the length of an array, and the characters
\* of a string.
Undefined == [t |-> "undefined", n |-> 0, s |-> <<>>]
Num(n) == [t |-> "number", n |-> n, s |-> <<>>]
Str(s) == [t |-> "string", n |-> 0, s |-> s]
Bool(b) == [t |-> "boolean", n |-> IF b THEN 1 ELSE 0, s |-> <<>>]
Arr(n) == [t |-> "array", n |-> n, s |-> <<>>]

NumberFields == {"timeScale", "difficulty", "speed", "fogDensity", "cameraZoom",
                 "gravityY", "jumpForce"}
StringFields == {"theme", "notes", "genre", "assetsType"}
ColourFields == {"primaryColor", "secondaryColor", "accentColor", "playerColor"}
CfgFields == NumberFields \cup StringFields \cup ColourFields
               \cup {"mechanics", "fogEnabled"}

\* the typeof / Array.isArray test the merge and update() apply to a field
TypeOf(f) ==
  IF f \in NumberFields THEN "number"
  ELSE IF f = "mechanics" THEN "array"
  ELSE IF f = "fogEnabled" THEN "boolean" ELSE "string"
Present(v, f) == v.t = TypeOf(f)

Color22C55E == <<"#", "2", "2", "C", "5", "5", "E">>
Color3B82F6 == <<"#", "3", "B", "8", "2", "F", "6">>
ColorF59E0B == <<"#", "F", "5", "9", "E", "0", "B">>

\* the hard-coded last alternative of each line of mergedCfg (lines 201-223)
Fallback(f) ==
  CASE f = "timeScale" -> Num(10)
    [] f = "difficulty" -> Num(5)
    [] f = "speed" -> Num(50)
    [] f = "theme" -> Str(<<"d", "e", "f", "a", "u", "l", "t">>)
    [] f = "notes" -> Str(<<>>)
    [] f = "genre" -> Str(<<"p", "l", "a", "t", "f", "o", "r", "m", "e", "r">>)
    [] f = "assetsType" -> Str(<<"l", "o", "w", "p", "o", "l", "y">>)
    [] f = "primaryColor" -> Str(Color22C55E)
    [] f = "secondaryColor" -> Str(Color3B82F6)
    [] f = "accentColor" -> Str(ColorF59E0B)
    [] OTHER -> Undefined

\* @Min / @Max of the request classes, in tenths
Lo(f) ==
  CASE f = "timeScale" -> 5 [] f = "cameraZoom" -> 10 [] f = "gravityY" -> -500
    [] OTHER -> 0
Hi(f) ==
  CASE f = "timeScale" -> 20 [] f = "difficulty" -> 10 [] f = "speed" -> 200
    [] f = "fogDensity" -> 1 [] f = "cameraZoom" -> 300 [] f = "gravityY" -> 0
    [] OTHER -> 500
\* @MaxLength of the request classes
MaxLength(f) ==
  CASE f = "theme" -> 40 [] f = "notes" -> 500 [] OTHER -> 30

HexDigits == {"0", "1", "2", "3", "4", "5", "6", "7", "8", "9",
              "a", "b", "c", "d", "e", "f", "A", "B", "C", "D", "E", "F"}
\* String.prototype.toUpperCase on the characters used here
UpperChar(c) ==
  CASE c = "a" -> "A" [] c = "b" -> "B" [] c = "c" -> "C" [] c = "d" -> "D"
    [] c = "e" -> "E" [] c = "f" -> "F" [] c = "n" -> "N" [] c = "o" -> "O"
    [] c = "z" -> "Z" [] OTHER -> c
ToUpperCase(s) == [i \in 1..Len(s) |-> UpperChar(s[i])]

\* String.prototype.trim
RECURSIVE TrimStart(_)
TrimStart(s) == IF s # <<>> /\ Head(s) = " " THEN TrimStart(Tail(s)) ELSE s
RECURSIVE TrimEnd(_)
TrimEnd(s) ==
  IF s # <<>> /\ s[Len(s)] = " " THEN TrimEnd(SubSeq(s, 1, Len(s) - 1)) ELSE s
Trim(s) == TrimEnd(TrimStart(s))

\* /^#[0-9a-fA-F]{6}$/ (lines 361 and 973)
IsHashRRGGBB(s) ==
  Len(s) = 7 /\ s[1] = "#" /\ \A i \in 2..7 : s[i] \in HexDigits

\* @IsHexColor(): an optional '#' and 3, 4, 6 or 8 hexadecimal digits
IsHexColor(s) ==
  LET d == IF s # <<>> /\ Head(s) = "#" THEN Tail(s) ELSE s
  IN Len(d) \in {3, 4, 6, 8} /\ \A i \in 1..Len(d) : d[i] \in HexDigits

\* normHex of update() (lines 356-363); Undefined when it returns undefined
NormHex(v) ==
  IF v.t # "string" THEN Undefined
  ELSE LET s0 == Trim(v.s)
           s1 == IF s0 # <<>> /\ Head(s0) # "#" /\ Len(s0) = 6 THEN <<"#">> \o s0
                 ELSE s0
       IN IF s0 = <<>> \/ ~IsHashRRGGBB(s1) THEN Undefined
          ELSE Str(ToUpperCase(s1))

\* an aiUnityConfig object, a request body or a generated config: a value
\* for every field, Undefined where the key is missing
NoConfig == [f \in CfgFields |-> Undefined]

\* the validators of CreateProjectAiDto and UpdateProjectDto on the config
\* fields (@IsOptional skips a missing field)
DtoValid(dto) ==
  \A f \in CfgFields :
    \/ dto[f] = Undefined
    \/ /\ Present(dto[f], f)
       /\ f \in NumberFields => dto[f].n \in Lo(f)..Hi(f)
       /\ f \in StringFields => Len(dto[f].s) <= MaxLength(f)
       /\ f \in ColourFields => IsHexColor(dto[f].s)
       /\ f = "mechanics" => dto[f].n <= 12

\* aiCreate (controller, lines 78-96): runtimeConfig is spread first, then
\* every config key is assigned from the request class, set or not
InitialConfig(rc, dto) == [f \in CfgFields |-> dto[f]]

\* mergedCfg with the AI-drafted value taken before the caller's
MergedCfg_AiFirst(init, unityCfg) ==
  [f \in CfgFields |->
     IF Present(unityCfg[f], f) THEN unityCfg[f]
     ELSE IF Present(init[f], f) THEN init[f] ELSE Fallback(f)]

\* mergedCfg (lines 199-224) as stored by create (lines 238-255)
MergedCfg(init, unityCfg) ==
  [f \in CfgFields |->
     IF Present(init[f], f) THEN init[f]
     ELSE IF Present(unityCfg[f], f) THEN unityCfg[f] ELSE Fallback(f)]

\* hasAiUpdate (lines 333-349): playerColor is not among the tested keys
HasAiUpdate(dto) == \E f \in CfgFields \ {"playerColor"} : Present(dto[f], f)

\* lines 365-391: the object update() stores from the current one
UpdatedCfg(cur, dto) ==
  [f \in CfgFields |->
     IF f \in ColourFields
       THEN IF NormHex(dto[f]) # Undefined THEN NormHex(dto[f]) ELSE cur[f]
     ELSE IF ~Present(dto[f], f) THEN cur[f]
     ELSE IF f \in StringFields THEN Str(Trim(dto[f].s))
     ELSE IF f = "mechanics" THEN Arr(Min(dto[f].n, 12))
     ELSE dto[f]]

\* What a call of the draft generator (generateProjectDraft,
\* generateUnityConfig) ends with: data, or an exception with its HTTP
\* status and whether its message contains 'quota'.
GenOk == [ok |-> TRUE, status |-> 200, quota |-> FALSE]
GenQuota == [ok |-> FALSE, status |-> 429, quota |-> TRUE]
GenFailed == [ok |-> FALSE, status |-> 400, quota |-> FALSE]
NoGen == [ok |-> FALSE, status |-> 0, quota |-> FALSE]
GenOutcomes == {GenOk, GenQuota, GenFailed}
\* isQuotaExceeded (lines 158-163)
IsQuotaExceeded(e) == e.status = 429 /\ e.quota
\* the catch blocks of lines 169-172 and 194-197 rethrow
Rethrown(e) == ~e.ok /\ ~IsQuotaExceeded(e)

\* data of generateUnityConfig (part_009 lines 977-991): clamped numbers,
\* short strings, uppercase colours; the other keys are never produced
UnityCfgData ==
  [NoConfig EXCEPT !["timeScale"] = Num(15), !["difficulty"] = Num(7),
                   !["theme"] = Str(<<"n", "e", "o", "n">>),
                   !["notes"] = Str(<<>>), !["speed"] = Num(80),
                   !["genre"] = Str(<<"r", "u", "n">>),
                   !["assetsType"] = Str(<<"2", "d">>),
                   !["mechanics"] = Arr(3),
                   !["primaryColor"] = Str(<<"#", "1", "1", "A", "A", "0", "0">>),
                   !["secondaryColor"] = Str(Color3B82F6),
                   !["accentColor"] = Str(<<"#", "0", "0", "F", "F", "0", "0">>)]
\* unityCfg of lines 192-197
UnityCfgOf(e) == IF e.ok THEN UnityCfgData ELSE NoConfig

NoRequest == [op |-> None, cfg |-> NoConfig, draft |-> NoGen, unity |-> NoGen]

\* ------------------------------------------------ extracted template
\* A directory below the extraction root is the sequence of the positions
\* its ancestors and itself have in readdir order; <<>> is the root.  An
\* extracted tree is given by the directories that contain Assets, Packages
\* and ProjectSettings (match) and those named __MACOSX (macosx).
MaxDepth == 3
DirNames == 1..2
Dirs ==
  {<<>>} \cup {<<a>> : a \in DirNames} \cup {<<a, b>> : a, b \in DirNames}
    \cup {<<a, b, 1>> : a, b \in DirNames} \cup {<<1, 1, 1, 1>>, <<2, 2, 1, 1>>}
TopLevelTree == [match |-> {<<>>}, macosx |-> {}]
\* the extracted trees: one or two directories with the three markers, at
\* most one directory named __MACOSX
Trees ==
  [match : {m \in SUBSET Dirs : Cardinality(m) \in 1..2},
   macosx : {{}} \cup {{d} : d \in Dirs \ {<<>>}}]

\* lines 582-614: breadth-first search from the extraction root; the
\* result is the first directory dequeued that has the three markers, the
\* root itself when the queue runs empty
RECURSIVE SearchUnityRoot(_, _)
SearchUnityRoot(tree, queue) ==
  IF queue = <<>> THEN <<>>
  ELSE LET cur == Head(queue)
           children == [i \in DirNames |-> cur \o <<i>>]
           pushed == SelectSeq(children,
                               LAMBDA d : d \in Dirs /\ d \notin tree.macosx)
       IN IF cur \in tree.match THEN cur
          ELSE IF Len(cur) >= MaxDepth THEN SearchUnityRoot(tree, Tail(queue))
          ELSE SearchUnityRoot(tree, Tail(queue) \o pushed)

\* FindUnityRoot without the search of lines 582-614
FindUnityRoot_NoSearch(tree) == <<>>

\* lines 574-616: find_unity_root
FindUnityRoot(tree) == SearchUnityRoot(tree, <<<<>>>>)

\* ------------------------------------------------ log write-back
\* line 1947 / 1952: the throttle interval of persist()
ThrottleMs == 1000
\* lastLogLine, persistTimer (the time it is due, 0: none) and lastPersistAt
\* of one runUnity call (lines 1940-1942)
\* and stdout, stderr (lines 1972-1973) as the lines they hold
NoLog == [lastLogLine |-> "", persistTimer |-> 0, lastPersistAt |-> 0,
          stdout |-> <<>>, stderr |-> <<>>]

\* ------------------------------------------------ error summary
\* lines 1850 and 1880: the lines scanned and the lines kept
TailLines == 400
SummaryLines == 60
\* lines 1853-1877: the output lines of this model that match a pattern
IsInteresting(l) == l \in {"Game.cs(3,7): error CS0246", "NullReferenceException"}
LastLines(seq, n) == SubSeq(seq, Len(seq) - Min(Len(seq), n) + 1, Len(seq))

\* lines 1846-1887: extractUnityErrorSummary, as the lines of its result
ExtractUnityErrorSummary(out) ==
  LET tailLines == LastLines(out, TailLines)
      interesting == SelectSeq(tailLines, IsInteresting)
  IN LastLines(IF interesting # <<>> THEN interesting ELSE tailLines, SummaryLines)

\* lines 2010-2011: the summary of `stderr || stdout`
ErrorSummary(stdout, stderr) ==
  ExtractUnityErrorSummary(IF stderr # <<>> THEN stderr ELSE stdout)

\* ---------------------------------------------------------------- state
VARIABLES
  projects,              \* projectModel: job id -> persisted record
  runs,                  \* run id -> state of one runBuild invocation
  child,                 \* run id -> the ChildProcess that run spawned
  activeBuildProcesses,  \* job id -> registered handle <<run, stage>>
  cancelReq,             \* the cancelBuild request in flight
  rebuildReq,            \* the rebuild request in flight
  cancelsDone,           \* cancel requests answered
  rebuildsDone,          \* rebuild requests answered
  overlapped,            \* history: a run was started while another was active
  aiUnityConfig,         \* job id -> the stored aiUnityConfig object
  lastRequest,           \* last request the service handled: [op, cfg, draft, unity]
  updatesDone,           \* update requests answered
  cachedLibrary,         \* the Library cache entry of the template
  cacheFiles,            \* per file of the entry, the run that wrote it (0: none)
  projectStorage,        \* keys of the build-output objects put to the store
  readyWithLibrary,      \* history: a run ended ready whose sandbox had a Library
  now,                   \* Date.now(), in milliseconds
  persist,               \* run id -> log write-back state of its runUnity call
  lastReply,             \* last response: [op, status, accepted, killed]
  faults,                \* environment failures injected so far
  template               \* templateModel record, its archive, the upload in flight

vars == <<projects, runs, child, activeBuildProcesses, cancelReq, rebuildReq,
          cancelsDone, rebuildsDone, overlapped,
                 aiUnityConfig, lastRequest, updatesDone,
                 cachedLibrary, cacheFiles, projectStorage, readyWithLibrary, now, persist, lastReply, faults,
          template>>

NoHandle == <<0, None>>
NoChild == [stage |-> None, st |-> None, code |-> ""]

IdleRun ==
  [pc |-> "idle", job |-> "p1", doc |-> NoProject, dirty |-> {},
   steps |-> {}, thrownAt |-> None, err |-> None, sandbox |-> FALSE,
   encoder |-> None, cancelKilled |-> FALSE,
   tree |-> TopLevelTree, unityRoot |-> <<>>, library |-> FALSE,
   restore |-> None, cacheSave |-> None, buildCode |-> "",
   changedBurst |-> FALSE, lockFile |-> FALSE, packageCache |-> FALSE,
   summary |-> <<>>, closedReplaced |-> FALSE, clearedTimer |-> FALSE]

\* a run past its last save keeps its sandbox directory and, until the
\* finally block has run, the outcome of its encoder
Ended(r, pc) == [IdleRun EXCEPT !.pc = pc, !.job = runs[r].job,
                                !.sandbox = runs[r].sandbox,
                                !.encoder = IF pc = "finally" THEN runs[r].encoder
                                            ELSE None]

\* seen: the status the request read with findById
IdleReq == [pc |-> "idle", job |-> "p1", seen |-> None, doc |-> NoProject, dirty |-> {}]
NoReply == [op |-> None, status |-> None, accepted |-> FALSE, killed |-> FALSE]

\* uploadTemplate line 253: the storageKey a template record is created with
Placeholder == "pending"
\* uploadTemplate line 256: the key of the archive, <id>.zip
ArchiveKey == "t1.zip"

\* no template record; `archive`: the template store holds ArchiveKey;
\* `upload`: the position of the uploadTemplate call; `doc`: the storageKey
\* of its in-memory document
NoTemplate ==
  [exists |-> FALSE, isPublic |-> FALSE, storageKey |-> "", archive |-> FALSE,
   upload |-> "idle", doc |-> ""]

\* a template whose upload has returned
UploadedTemplate ==
  [exists |-> TRUE, isPublic |-> TRUE, storageKey |-> ArchiveKey, archive |-> TRUE,
   upload |-> "done", doc |-> ArchiveKey]

\* createFromTemplate lines 129-131, createFromAi lines 165-173: the template
\* is found and is public
Selectable == template.exists /\ template.isPublic

\* runBuild lines 561-563: copyFile of resolveKey(template.storageKey)
\* finds the archive
TemplateReadable == template.storageKey = ArchiveKey /\ template.archive

InitBuild ==
  /\ projects = [j \in JobIds |-> NoProject]
  /\ runs = [r \in RunIds |-> IdleRun]
  /\ child = [r \in RunIds |-> NoChild]
  /\ activeBuildProcesses = [j \in JobIds |-> NoHandle]
  /\ cancelReq = IdleReq
  /\ rebuildReq = IdleReq
  /\ cancelsDone = 0
  /\ rebuildsDone = 0
  /\ overlapped = FALSE
  /\ aiUnityConfig = [j \in JobIds |-> NoConfig]
  /\ lastRequest = NoRequest
  /\ updatesDone = 0
  /\ cachedLibrary = "absent"
  /\ cacheFiles = <<0, 0>>
  /\ projectStorage = {}
  /\ readyWithLibrary = FALSE
  /\ now = ThrottleMs
  /\ persist = [r \in RunIds |-> NoLog]
  /\ lastReply = NoReply
  /\ faults = 0

\* the one template of the model has been uploaded before any job is created
Init == InitBuild /\ template = UploadedTemplate

\* The environment misbehaves (a throwing file or store operation, a failed
\* spawn, a non-zero exit, a timeout, a missing capture output): at most
\* MaxFaults times in one behaviour.
InjectN(n) == faults + n <= MaxFaults /\ faults' = faults + n
Inject == InjectN(1)
NoFault == InjectN(0)

\* ------------------------------------------------- mongoose document ops
\* doc.path = value: the path becomes modified unless the value is unchanged;
\* a buildTimings object carries fresh timestamps, so it is always modified.
SetPath(d, path, value) ==
  [doc |-> [d.doc EXCEPT ![path] = value],
   dirty |-> IF d.doc[path] = value /\ (path # "buildTimings" \/ value = NoTimings)
             THEN d.dirty ELSE d.dirty \cup {path}]

\* doc.save(): $set / $unset of the modified paths only
SaveDoc(stored, d) ==
  [f \in DOMAIN stored |-> IF f \in d.dirty THEN d.doc[f] ELSE stored[f]]

Loaded(stored) == [doc |-> stored, dirty |-> {}]

StartedRuns == {r \in RunIds : runs[r].pc # "idle"}
ActiveRuns(j) == {r \in RunIds : runs[r].job = j /\ runs[r].pc \notin {"idle", "done"}}
NextRun == Cardinality(StartedRuns) + 1

\* this.runBuild(id).catch(() => null): the call runs up to its first await
\* (the findById of line 527), i.e. it only schedules the run.
StartRunBuild(j) ==
  runs' = [runs EXCEPT ![NextRun] = [IdleRun EXCEPT !.pc = "findById", !.job = j]]

\* ------------------------------------------------------------ submit
\* createFromTemplate: webgl target, no aiUnityConfig
CreateFromTemplate(j) ==
  /\ ~projects[j].exists
  /\ Selectable
  /\ NextRun \in RunIds
  /\ projects' = [projects EXCEPT ![j] = NewProject("webgl", FALSE)]
  /\ StartRunBuild(j)
  /\ lastReply' = [op |-> "create", status |-> "queued", accepted |-> TRUE,
                   killed |-> FALSE]
  /\ UNCHANGED <<template, child, activeBuildProcesses, cancelReq, rebuildReq,
                 cancelsDone, rebuildsDone, overlapped,
                 aiUnityConfig, lastRequest, updatesDone,
                 cachedLibrary, cacheFiles, projectStorage, readyWithLibrary, now, persist, faults>>

\* createFromAi (lines 148-264): two calls of the draft generator, whose
\* exception is swallowed only when isQuotaExceeded; the merged config is
\* stored with the caller-chosen target and the pipeline is started.
\* the same call as the controller makes it: body and bag are the config
\* fields of the request class and its runtimeConfig object, kept with the
\* request
CreateFromAiOf(j, target, init, draft, unity, body, bag) ==
  /\ ~projects[j].exists
  /\ Selectable
  /\ NextRun \in RunIds
  /\ lastRequest' = [op |-> "createFromAi", cfg |-> init, draft |-> draft,
                     unity |-> unity, body |-> body, bag |-> bag]
  /\ IF Rethrown(draft) \/ Rethrown(unity)
       THEN /\ lastReply' = [op |-> "create", status |-> None, accepted |-> FALSE,
                             killed |-> FALSE]
            /\ UNCHANGED <<projects, runs, aiUnityConfig>>
       ELSE /\ projects' = [projects EXCEPT ![j] = NewProject(target, TRUE)]
            /\ aiUnityConfig' =
                 [aiUnityConfig EXCEPT ![j] = MergedCfg(init, UnityCfgOf(unity))]
            /\ StartRunBuild(j)
            /\ lastReply' = [op |-> "create", status |-> "queued",
                             accepted |-> TRUE, killed |-> FALSE]
  /\ UNCHANGED <<template, child, activeBuildProcesses, cancelReq, rebuildReq,
                 cancelsDone, rebuildsDone, overlapped, updatesDone, faults,
                 cachedLibrary, cacheFiles, projectStorage, readyWithLibrary, now, persist>>

\* createFromAi called by another caller than the controller
CreateFromAi(j, target, init, draft, unity) ==
  CreateFromAiOf(j, target, init, draft, unity, NoConfig, NoConfig)

\* POST /projects/ai/create (controller lines 68-97) behind the global
\* ValidationPipe: an invalid body is answered 400 before the service runs
AiCreate(j, target, dto, rc, draft, unity) ==
  IF DtoValid(dto)
    THEN CreateFromAiOf(j, target, InitialConfig(rc, dto), draft, unity, dto, rc)
    ELSE /\ ~projects[j].exists
         /\ lastReply' = [op |-> "create", status |-> None, accepted |-> FALSE,
                          killed |-> FALSE]
         /\ UNCHANGED <<template, projects, runs, child, activeBuildProcesses, cancelReq,
                        rebuildReq, cancelsDone, rebuildsDone, overlapped,
                        aiUnityConfig, lastRequest, updatesDone,
                 cachedLibrary, cacheFiles, projectStorage, readyWithLibrary, now, persist, faults>>

\* ------------------------------------------------------------ runBuild
RunAt(r, pc) == runs[r].pc = pc
Mem(r) == [doc |-> runs[r].doc, dirty |-> runs[r].dirty]

\* line 527: const project = await this.projectModel.findById(projectId)
RunBuild_Find(r) ==
  /\ RunAt(r, "findById")
  /\ runs' = [runs EXCEPT ![r].doc = projects[runs[r].job], ![r].dirty = {},
                          ![r].pc = "save_running"]
  /\ UNCHANGED <<template, projects, child, activeBuildProcesses, cancelReq, rebuildReq,
                 cancelsDone, rebuildsDone, overlapped,
                 aiUnityConfig, lastRequest, updatesDone,
                 cachedLibrary, cacheFiles, projectStorage, readyWithLibrary, now, persist, lastReply, faults>>

RunningTimings(r) == [NoTimings EXCEPT !.startedAt = r]

\* lines 541-547: status = 'running', error cleared, fresh timings, save()
RunBuild_SaveRunning(r) ==
  /\ RunAt(r, "save_running")
  /\ LET d == SetPath(SetPath(SetPath(Mem(r), "status", "running"),
                              "error", None),
                      "buildTimings", RunningTimings(r))
     IN /\ projects' = [projects EXCEPT ![runs[r].job] = SaveDoc(@, d)]
        /\ runs' = [runs EXCEPT ![r].doc = d.doc, ![r].dirty = {},
                                ![r].pc = "workdir"]
  /\ UNCHANGED <<template, child, activeBuildProcesses, cancelReq, rebuildReq,
                 cancelsDone, rebuildsDone, overlapped,
                 aiUnityConfig, lastRequest, updatesDone,
                 cachedLibrary, cacheFiles, projectStorage, readyWithLibrary, now, persist, lastReply, faults>>

\* lines 549-551: mkdtemp succeeds
RunBuild_Workdir(r) ==
  /\ RunAt(r, "workdir")
  /\ runs' = [runs EXCEPT ![r].steps = @ \cup {"workdir"}, ![r].sandbox = TRUE,
                          ![r].pc = "prepare"]
  /\ UNCHANGED <<template, projects, child, activeBuildProcesses, cancelReq, rebuildReq,
                 cancelsDone, rebuildsDone, overlapped,
                 aiUnityConfig, lastRequest, updatesDone,
                 cachedLibrary, cacheFiles, projectStorage, readyWithLibrary, now, persist, lastReply, faults>>

\* line 550 throws: it is outside the try block (line 553), so the promise of
\* runBuild rejects and the caller's .catch(() => null) drops the error.
RunBuild_WorkdirThrows(r) ==
  /\ RunAt(r, "workdir")
  /\ Inject
  /\ runs' = [runs EXCEPT ![r] = Ended(r, "done")]
  /\ UNCHANGED <<template, projects, child, activeBuildProcesses, cancelReq, rebuildReq,
                 cancelsDone, rebuildsDone, overlapped,
                 aiUnityConfig, lastRequest, updatesDone,
                 cachedLibrary, cacheFiles, projectStorage, readyWithLibrary, now, persist, lastReply>>

\* The steps between mkdtemp and the first spawn, in program order.
PrepSteps == <<"load_template", "extract_template", "find_unity_root",
               "ensure_burst", "library_cache_restore", "inject_build_script",
               "inject_ai_patch", "inject_assets", "unity_build">>

\* <<step, message>>: the statements of lines 554-2053 that can throw into
\* the catch of line 2243 (ensure_burst and library_cache_restore swallow).
PrepThrows == {<<"load_template", ErrTemplate>>, <<"extract_template", ErrIo>>,
               <<"inject_build_script", ErrIo>>, <<"inject_ai_patch", ErrIo>>,
               <<"inject_assets", ErrIo>>, <<"unity_build", ErrToolPath>>,
               <<"unity_build", ErrIo>>}

StepIndex(name) == CHOOSE i \in 1..Len(PrepSteps) : PrepSteps[i] = name

\* EndedBefore with extract_template still running when later steps end
EndedBefore_LateExtract(upto, aiCfg) ==
  {PrepSteps[i] : i \in 1..(StepIndex(upto) - 1)}
    \ ({"extract_template"} \cup (IF aiCfg THEN {} ELSE {"inject_ai_patch"}))

\* endStep() calls reached when the statement of step `upto` is executing:
\* endStep('inject_ai_patch') sits inside `if (aiCfg ...)` (line 1813).
EndedBefore(upto, aiCfg) ==
  {PrepSteps[i] : i \in 1..(StepIndex(upto) - 1)}
    \ (IF aiCfg THEN {} ELSE {"inject_ai_patch"})

Throw(r, step, msg) ==
  [runs EXCEPT ![r].thrownAt = step, ![r].err = msg, ![r].pc = "catch"]

\* Spawn without line 1938 (the handle is never registered)
Spawn_NoRegister(r, stage, ok) ==
  /\ child' = [child EXCEPT ![r] = [stage |-> stage,
                                    st |-> IF ok THEN "alive" ELSE "spawn_error",
                                    code |-> ""]]
  /\ UNCHANGED activeBuildProcesses

\* runUnity lines 1917-1938: spawn, then register the handle
Spawn(r, stage, ok) ==
  /\ child' = [child EXCEPT ![r] = [stage |-> stage,
                                    st |-> IF ok THEN "alive" ELSE "spawn_error",
                                    code |-> ""]]
  /\ activeBuildProcesses' =
       [activeBuildProcesses EXCEPT ![runs[r].job] = <<r, stage>>]

\* library_cache_restore (lines 690-706): what the step ends with when the
\* template ships a Library directory or not and the copy succeeds or not
RestoreOutcome(shipped, copied) ==
  IF cachedLibrary = "absent" THEN "no_entry"
  ELSE IF shipped THEN "kept"
  ELSE IF copied THEN "copied" ELSE "copy_error"

\* Restored with a copy error thrown into the catch of line 2243
Restored_Throws(r, tree, shipped, copied) ==
  IF RestoreOutcome(shipped, copied) = "copy_error"
  THEN [Throw(r, "library_cache_restore", ErrIo) EXCEPT ![r].restore = "copy_error"]
  ELSE [runs EXCEPT ![r].tree = tree, ![r].unityRoot = FindUnityRoot(tree),
                    ![r].restore = RestoreOutcome(shipped, copied),
                    ![r].library = shipped \/ RestoreOutcome(shipped, copied) = "copied"]

\* lines 572-706: the run after find_unity_root and library_cache_restore,
\* whose catch (line 703) swallows a copy error
Restored(r, tree, shipped, copied) ==
  [runs EXCEPT ![r].tree = tree, ![r].unityRoot = FindUnityRoot(tree),
               ![r].restore = RestoreOutcome(shipped, copied),
               ![r].library = shipped \/ RestoreOutcome(shipped, copied) = "copied"]

\* lines 553-2060 up to the spawn of the primary build.  tree: the
\* extracted template; shipped: it contains the derived state of a project
\* that was opened in the editor, a Library directory with its PackageCache
\* and Packages/packages-lock.json; pin: ensure_burst (lines 646-682) finds
\* another version of com.unity.burst in the manifest than the one it wants,
\* rewrites it, and removes the lock file and Library/PackageCache.  The
\* Library of a cache entry that was saved whole holds a PackageCache.
RunBuild_Prepare(r, tree, shipped, pin) ==
  /\ RunAt(r, "prepare")
  /\ child[r] = NoChild
  /\ \/ \E t \in PrepThrows :
          /\ t[1] = "inject_ai_patch" => runs[r].doc.aiUnityConfig
          /\ Inject
          /\ runs' = [Throw(r, t[1], t[2]) EXCEPT
                        ![r].steps = @ \cup EndedBefore(t[1], runs[r].doc.aiUnityConfig)]
          /\ UNCHANGED <<child, activeBuildProcesses>>
     \/ \E ok \in BOOLEAN, copied \in BOOLEAN :
          /\ copied \/ RestoreOutcome(shipped, copied) = "copy_error"
          /\ InjectN((IF ok THEN 0 ELSE 1) + (IF copied THEN 0 ELSE 1))
          /\ LET rs == IF TemplateReadable THEN Restored(r, tree, shipped, copied)
                       ELSE Throw(r, "extract_template", ErrIo)
             IN IF rs[r].pc = "catch"
                THEN /\ runs' = [rs EXCEPT ![r].steps =
                                   @ \cup EndedBefore(rs[r].thrownAt,
                                                      runs[r].doc.aiUnityConfig)]
                     /\ ok
                     /\ UNCHANGED <<child, activeBuildProcesses>>
                ELSE /\ runs' = [rs EXCEPT
                                   ![r].steps = @ \cup EndedBefore("unity_build",
                                                      runs[r].doc.aiUnityConfig),
                                   ![r].changedBurst = pin,
                                   ![r].lockFile = shipped /\ ~pin,
                                   ![r].packageCache =
                                      \/ shipped /\ ~pin
                                      \/ /\ rs[r].restore = "copied"
                                         /\ cachedLibrary = "present",
                                   ![r].pc = "unity_build_wait"]
                     /\ Spawn(r, "unity_build", ok)
  /\ UNCHANGED <<template, projects, cancelReq, rebuildReq, cancelsDone, rebuildsDone, overlapped,
                 aiUnityConfig, lastRequest, updatesDone,
                 cachedLibrary, cacheFiles, projectStorage, readyWithLibrary, now, persist,
                 lastReply>>

\* lines 2062-2071: mkdir media_out, second runUnity (not inside a try)
RunBuild_Capture(r) ==
  /\ RunAt(r, "capture_media")
  /\ child[r] = NoChild
  /\ \/ /\ Inject
        /\ runs' = Throw(r, "capture_media", ErrIo)
        /\ UNCHANGED <<child, activeBuildProcesses>>
     \/ \E ok \in BOOLEAN :
          /\ IF ok THEN NoFault ELSE Inject
          /\ runs' = [runs EXCEPT ![r].pc = "capture_media_wait",
                                   ![r].closedReplaced = FALSE]
          /\ Spawn(r, "capture_media", ok)
  /\ UNCHANGED <<template, projects, cancelReq, rebuildReq, cancelsDone, rebuildsDone, overlapped,
                 aiUnityConfig, lastRequest, updatesDone,
                 cachedLibrary, cacheFiles, projectStorage, readyWithLibrary, now, persist,
                 lastReply>>

\* ------------------------------------------------- child process events
UnityStages == {"unity_build", "capture_media"}
\* the run is suspended on the promise of its current child
Waiting(r) == runs[r].pc = child[r].stage \o "_wait"

\* the external process ends on its own: exit code 0 or non-zero
ChildExit(r, code) ==
  /\ child[r].st = "alive"
  /\ IF code = "0" THEN NoFault ELSE Inject
  /\ child' = [child EXCEPT ![r].st = "exited", ![r].code = code]
  /\ UNCHANGED <<template, projects, runs, activeBuildProcesses, cancelReq, rebuildReq,
                 cancelsDone, rebuildsDone, overlapped,
                 aiUnityConfig, lastRequest, updatesDone,
                 cachedLibrary, cacheFiles, projectStorage, readyWithLibrary, now, persist, lastReply>>

\* child.kill('SIGKILL'): only a live process is affected; it ends with
\* exit code null
Kill(r) ==
  [child EXCEPT ![r] = IF @.st = "alive"
                       THEN [@ EXCEPT !.st = "exited", !.code = "null"] ELSE @]

\* lines 1974-1980: the timer armed by runUnity fires before 'close'
TimeoutKill(r) ==
  /\ child[r].st = "alive"
  /\ child[r].stage \in UnityStages
  /\ Inject
  /\ child' = Kill(r)
  /\ UNCHANGED <<template, projects, runs, activeBuildProcesses, cancelReq, rebuildReq,
                 cancelsDone, rebuildsDone, overlapped,
                 aiUnityConfig, lastRequest, updatesDone,
                 cachedLibrary, cacheFiles, projectStorage, readyWithLibrary, now, persist, lastReply>>

\* ChildError without the catch of line 2166: the rejection of the encoder's
\* promise reaches the catch of line 2243
ChildError_EncoderThrows(r) ==
  /\ child[r].st = "spawn_error"
  /\ child' = [child EXCEPT ![r].st = "exited", ![r].code = "-2"]
  /\ runs' = Throw(r, child[r].stage, ErrSpawn)
  /\ UNCHANGED <<template, projects, activeBuildProcesses, cancelReq, rebuildReq,
                 cancelsDone, rebuildsDone, overlapped,
                 aiUnityConfig, lastRequest, updatesDone,
                 cachedLibrary, cacheFiles, projectStorage, readyWithLibrary, now, persist, lastReply, faults>>

\* line 1992 / 2150: child.on('error', reject) after a failed spawn; 'close'
\* follows later.  The ffmpeg promise is awaited inside the try of line 2089,
\* whose catch swallows the error and falls through to endStep('upload_media').
ChildError(r) ==
  /\ child[r].st = "spawn_error"
  /\ child' = [child EXCEPT ![r].st = "exited", ![r].code = "-2"]
  /\ runs' = IF child[r].stage = "ffmpeg"
             THEN [runs EXCEPT ![r].encoder = "unavailable",
                               ![r].steps = @ \cup {"upload_media"},
                               ![r].pc = "publish"]
             ELSE Throw(r, child[r].stage, ErrSpawn)
  /\ UNCHANGED <<template, projects, activeBuildProcesses, cancelReq, rebuildReq,
                 cancelsDone, rebuildsDone, overlapped,
                 aiUnityConfig, lastRequest, updatesDone,
                 cachedLibrary, cacheFiles, projectStorage, readyWithLibrary, now, persist, lastReply, faults>>

\* lines 1943-1961: persist(force) on the state p of one runUnity call at
\* time `now`: the state after it, and whether updateOne was issued
Persist(p, force) ==
  IF p.lastLogLine = "" THEN [p |-> p, write |-> FALSE]
  ELSE IF ~force /\ now - p.lastPersistAt < ThrottleMs
  THEN [p |-> IF p.persistTimer = 0
              THEN [p EXCEPT !.persistTimer = now + ThrottleMs] ELSE p,
        write |-> FALSE]
  ELSE [p |-> [p EXCEPT !.lastPersistAt = now], write |-> TRUE]

\* ClosePersist with persist(false) for line 2005 and no clearTimeout
ClosePersist_Unforced(p) == Persist(p, FALSE)

\* lines 2000-2008: the close handler clears a pending timer and calls
\* persist(true)
ClosePersist(p) == Persist([p EXCEPT !.persistTimer = 0], TRUE)

\* the variables of one runUnity call after its close handler: they are
\* reachable only from a timer that is still pending
AfterClose(p) == IF p.persistTimer = 0 THEN NoLog ELSE p

\* Unregister with an unconditional delete for line 1997
Unregister_Always(r) ==
  [activeBuildProcesses EXCEPT ![runs[r].job] = NoHandle]

\* lines 1996-1997: unregister only if the entry is still this child
Unregister(r) ==
  [activeBuildProcesses EXCEPT ![runs[r].job] =
     IF @ = <<r, child[r].stage>> THEN NoHandle ELSE @]

\* line 1996: the close handler of r's child finds the handle of another
\* process under its job id (kept on a run that goes on, until its next step)
Replaced(r) ==
  activeBuildProcesses[runs[r].job] \notin {NoHandle, <<r, child[r].stage>>}

\* UnityClose with `if (!code) return resolve()` for line 2009: the exit code
\* null of a killed child counts as success
UnityClose_NullResolves(r) ==
  /\ child[r].st = "exited"
  /\ child[r].stage \in UnityStages
  /\ activeBuildProcesses' = Unregister(r)
  /\ projects' = [projects EXCEPT ![runs[r].job].buildLogLastLine =
                    IF ClosePersist(persist[r]).write
                    THEN ClosePersist(persist[r]).p.lastLogLine
                    ELSE IF child[r].code = "-2" THEN @ ELSE "log line"]
  /\ child' = [child EXCEPT ![r] = NoChild]
  /\ runs' =
       IF ~Waiting(r) THEN runs
       ELSE IF child[r].code \in {"0", "null"}
       THEN [runs EXCEPT ![r].steps = @ \cup {child[r].stage},
                         ![r].buildCode = IF child[r].stage = "unity_build"
                                          THEN child[r].code ELSE @,
                         ![r].closedReplaced = Replaced(r),
                         ![r].clearedTimer = persist[r].persistTimer # 0,
                         ![r].pc = IF child[r].stage = "unity_build"
                                   THEN "capture_media" ELSE "upload_media"]
       ELSE [Throw(r, child[r].stage, UnityError(child[r].code)) EXCEPT
               ![r].summary = ErrorSummary(persist[r].stdout, persist[r].stderr),
               ![r].clearedTimer = persist[r].persistTimer # 0]
  /\ persist' = [persist EXCEPT ![r] = AfterClose(ClosePersist(persist[r]).p)]
  /\ UNCHANGED <<template, cancelReq, rebuildReq, cancelsDone, rebuildsDone, overlapped,
                 aiUnityConfig, lastRequest, updatesDone,
                 cachedLibrary, cacheFiles, projectStorage, readyWithLibrary, now, lastReply, faults>>

\* lines 1993-2022: 'close' of a Unity child.  persist(true) writes the last
\* non-empty output line with updateOne; a child that never started printed
\* nothing, a started Unity (-logFile -) whose output is not followed chunk
\* by chunk printed at least one line.
UnityClose(r) ==
  /\ child[r].st = "exited"
  /\ child[r].stage \in UnityStages
  /\ activeBuildProcesses' = Unregister(r)
  /\ projects' = [projects EXCEPT ![runs[r].job].buildLogLastLine =
                    IF ClosePersist(persist[r]).write
                    THEN ClosePersist(persist[r]).p.lastLogLine
                    ELSE IF child[r].code = "-2" THEN @ ELSE "log line"]
  /\ child' = [child EXCEPT ![r] = NoChild]
  /\ runs' =
       IF ~Waiting(r) THEN runs            \* promise already rejected by 'error'
       ELSE IF child[r].code = "0"
       THEN [runs EXCEPT ![r].steps = @ \cup {child[r].stage},
                         ![r].buildCode = IF child[r].stage = "unity_build"
                                          THEN child[r].code ELSE @,
                         ![r].closedReplaced = Replaced(r),
                         ![r].clearedTimer = persist[r].persistTimer # 0,
                         ![r].pc = IF child[r].stage = "unity_build"
                                   THEN "capture_media" ELSE "upload_media"]
       ELSE [Throw(r, child[r].stage, UnityError(child[r].code)) EXCEPT
               ![r].summary = ErrorSummary(persist[r].stdout, persist[r].stderr),
               ![r].clearedTimer = persist[r].persistTimer # 0]
  /\ persist' = [persist EXCEPT ![r] = AfterClose(ClosePersist(persist[r]).p)]
  /\ UNCHANGED <<template, cancelReq, rebuildReq, cancelsDone, rebuildsDone, overlapped,
                 aiUnityConfig, lastRequest, updatesDone,
                 cachedLibrary, cacheFiles, projectStorage, readyWithLibrary, now, lastReply, faults>>

\* library_cache_save (lines 2075-2085): what the step ends with when the
\* sandbox has a Library directory or not and the copy succeeds or not
SaveOutcome(library, copied) ==
  IF ~library THEN "skipped" ELSE IF copied THEN "saved" ELSE "copy_error"

\* CacheAfter for a save that removes the entry and copies nothing
CacheAfter_Evicts(outcome) ==
  IF outcome = "skipped" THEN cachedLibrary ELSE "absent"

\* lines 2078-2081: rm of the cached entry, then cp of the Library directory;
\* a copy that fails leaves what it had written
CacheAfter(outcome) ==
  IF outcome = "saved" THEN "present"
  ELSE IF outcome = "copy_error" THEN "partial" ELSE cachedLibrary

\* lines 2073-2156: library_cache_save (errors swallowed), then upload_media
\* up to the spawn of the encoder.  lib: the primary build left a Library
\* directory in the project.  stills: the capture pass wrote cover.png
\* and the shot_N.png files and their uploads succeeded (the capture script
\* writes both or, when it fails early, neither).  enc: "skip" (no first
\* frame, or an exception swallowed by the catch of line 2166), "spawn",
\* "unavailable" (the spawn of the encoder fails).
RunBuild_UploadMedia(r, lib) ==
  /\ RunAt(r, "upload_media")
  /\ child[r] = NoChild
  /\ \E stills \in BOOLEAN, enc \in {"skip", "spawn", "unavailable"},
        copied \in BOOLEAN :
       LET d1 == IF stills THEN SetPath(Mem(r), "previewImageUrl", Url) ELSE Mem(r)
           d2 == IF stills THEN SetPath(d1, "screenshotUrls", Url) ELSE d1
           done == runs[r].cacheSave = "saved"
           outcome == IF done THEN "saved"
                      ELSE SaveOutcome(runs[r].library \/ lib, copied)
       IN /\ runs[r].cacheSave \in {None, "saved"}
          /\ copied \/ outcome = "copy_error"
          /\ InjectN((IF stills THEN 0 ELSE 1) + (IF enc = "spawn" THEN 0 ELSE 1)
                       + (IF copied THEN 0 ELSE 1))
          /\ cachedLibrary' = IF done THEN cachedLibrary ELSE CacheAfter(outcome)
          /\ cacheFiles' = IF done \/ outcome = "skipped" THEN cacheFiles
                           ELSE IF outcome = "saved" THEN <<r, r>> ELSE <<r, 0>>
          /\ runs' = [runs EXCEPT
                        ![r].doc = d2.doc, ![r].dirty = d2.dirty,
                        ![r].library = @ \/ lib, ![r].cacheSave = outcome,
                        ![r].closedReplaced = FALSE,
                        ![r].steps = @ \cup {"library_cache_save"}
                                       \cup (IF enc = "skip" THEN {"upload_media"} ELSE {}),
                        ![r].pc = IF enc = "skip" THEN "publish" ELSE "ffmpeg_wait"]
          /\ child' = IF enc = "skip" THEN child
                      ELSE [child EXCEPT ![r] =
                              [stage |-> "ffmpeg",
                               st |-> IF enc = "spawn" THEN "alive" ELSE "spawn_error",
                               code |-> ""]]
  /\ UNCHANGED <<template, projects, activeBuildProcesses, cancelReq, rebuildReq,
                 cancelsDone, rebuildsDone, overlapped,
                 aiUnityConfig, lastRequest, updatesDone,
                 projectStorage, readyWithLibrary, now, persist, lastReply>>

\* lines 2151-2169: 'close' of the encoder; exit 0 resolves and the video is
\* uploaded if preview.mp4 exists and the upload succeeds; otherwise reject,
\* swallowed by the catch of line 2166.
FfmpegClose(r) ==
  /\ child[r].st = "exited"
  /\ child[r].stage = "ffmpeg"
  /\ child' = [child EXCEPT ![r] = NoChild]
  /\ \/ /\ ~RunAt(r, "ffmpeg_wait")
        /\ NoFault
        /\ runs' = runs
     \/ /\ RunAt(r, "ffmpeg_wait")
        /\ child[r].code # "0"
        /\ NoFault
        /\ runs' = [runs EXCEPT ![r].encoder = "nonzero",
                                ![r].steps = @ \cup {"upload_media"},
                                ![r].pc = "publish"]
     \/ /\ RunAt(r, "ffmpeg_wait")
        /\ child[r].code = "0"
        /\ \E video \in BOOLEAN :
             LET d == IF video THEN SetPath(Mem(r), "previewVideoUrl", Url) ELSE Mem(r)
             IN /\ IF video THEN NoFault ELSE Inject
                /\ runs' = [runs EXCEPT ![r].doc = d.doc, ![r].dirty = d.dirty,
                                        ![r].encoder = "ok",
                                        ![r].steps = @ \cup {"upload_media"},
                                        ![r].pc = "publish"]
  /\ UNCHANGED <<template, projects, activeBuildProcesses, cancelReq, rebuildReq,
                 cancelsDone, rebuildsDone, overlapped,
                 aiUnityConfig, lastRequest, updatesDone,
                 cachedLibrary, cacheFiles, projectStorage, readyWithLibrary, now, persist, lastReply>>

\* ------------------------------------------------- verify, publish, save
IsAndroidApk(target) == target = "android_apk" \/ target = "android"

ZipKey(j) == j \o ".zip"
ApkKey(j) == j \o ".apk"
IndexKey(j) == j \o "/webgl/index.html"

\* <<step, message>> that can throw in lines 2171-2227, per target
PublishThrows(target) ==
  IF IsAndroidApk(target)
  THEN {<<"verify_output", ErrNoApk>>, <<"upload_android_apk", ErrIo>>}
  ELSE {<<"verify_output", ErrNoIndex>>, <<"upload_webgl_files", ErrIo>>,
        <<"zip_webgl", ErrIo>>}

PublishSteps(target) ==
  IF IsAndroidApk(target) THEN <<"verify_output", "upload_android_apk">>
  ELSE <<"verify_output", "upload_webgl_files", "zip_webgl">>

PublishEndedBefore(target, upto) ==
  LET seq == PublishSteps(target)
      k == CHOOSE i \in 1..Len(seq) : seq[i] = upto
  IN {seq[i] : i \in 1..(k - 1)}

\* Published without the assignments of lines 2185 and 2232
Published_NoStatus(d, j, target) ==
  IF IsAndroidApk(target)
  THEN SetPath(SetPath(d, "resultStorageKey", ApkKey(j)),
               "androidApkStorageKey", ApkKey(j))
  ELSE SetPath(SetPath(SetPath(d, "resultStorageKey", ZipKey(j)),
                       "webglZipStorageKey", ZipKey(j)),
               "webglIndexStorageKey", IndexKey(j))

\* lines 2184-2186 / 2229-2232: result references and status on the document
Published(d, j, target) ==
  IF IsAndroidApk(target)
  THEN SetPath(SetPath(SetPath(d, "resultStorageKey", ApkKey(j)),
                       "androidApkStorageKey", ApkKey(j)),
               "status", "ready")
  ELSE SetPath(SetPath(SetPath(SetPath(d, "resultStorageKey", ZipKey(j)),
                               "webglZipStorageKey", ZipKey(j)),
                       "webglIndexStorageKey", IndexKey(j)),
               "status", "ready")

\* lines 2194-2211: the files of the WebGL output directory in the order
\* walk() visits them, and the key each is put under
OutFiles == <<"index.html", "Build/game.data">>
FileKey(j, rel) == j \o "/webgl/" \o rel

\* Stored without the put of line 2222
Stored_NoZip(j, target) ==
  IF IsAndroidApk(target) THEN {ApkKey(j)}
  ELSE {FileKey(j, OutFiles[i]) : i \in 1..Len(OutFiles)}

\* what a successful publication has put to the store (lines 2177-2181,
\* 2194-2227)
Stored(j, target) ==
  IF IsAndroidApk(target) THEN {ApkKey(j)}
  ELSE {FileKey(j, OutFiles[i]) : i \in 1..Len(OutFiles)} \cup {ZipKey(j)}

\* StoredBefore with the uploads done ahead of the existence test
StoredBefore_VerifyLast(j, target, step, put) ==
  IF step = "verify_output" THEN Stored(j, target)
  ELSE IF step = "upload_webgl_files"
  THEN {FileKey(j, OutFiles[i]) : i \in 1..put}
  ELSE IF step = "zip_webgl" THEN Stored(j, target) \ {ZipKey(j)}
  ELSE {}

\* what has been put to the store when `step` throws; put: the files the
\* walk uploaded before the put that failed
StoredBefore(j, target, step, put) ==
  IF step = "upload_webgl_files"
  THEN {FileKey(j, OutFiles[i]) : i \in 1..put}
  ELSE IF step = "zip_webgl" THEN Stored(j, target) \ {ZipKey(j)}
  ELSE {}

\* lines 2171-2233: verify_output and the uploads, then the assignments
RunBuild_Publish(r, put) ==
  /\ RunAt(r, "publish")
  /\ LET target == runs[r].doc.buildTarget
     IN \/ \E t \in PublishThrows(target) :
             /\ Inject
             /\ runs' = [Throw(r, t[1], t[2]) EXCEPT
                           ![r].steps = @ \cup PublishEndedBefore(target, t[1])]
             /\ projectStorage' = projectStorage \cup
                                    StoredBefore(runs[r].job, target, t[1], put)
        \/ LET d == Published(Mem(r), runs[r].job, target)
           IN /\ NoFault
              /\ projectStorage' = projectStorage \cup Stored(runs[r].job, target)
              /\ runs' = [runs EXCEPT
                         ![r].doc = d.doc, ![r].dirty = d.dirty,
                         ![r].steps = @ \cup {PublishSteps(target)[i] :
                                                i \in 1..Len(PublishSteps(target))},
                         ![r].pc = "final_save"]
  /\ UNCHANGED <<template, projects, child, activeBuildProcesses, cancelReq, rebuildReq,
                 cancelsDone, rebuildsDone, overlapped,
                 aiUnityConfig, lastRequest, updatesDone,
                 cachedLibrary, cacheFiles, readyWithLibrary, now, persist, lastReply>>

FinalTimings(r) ==
  [startedAt |-> r, finishedAt |-> "run", durationMs |-> TRUE, steps |-> runs[r].steps]

\* lines 2235-2242: timings, save()
RunBuild_FinalSave(r) ==
  /\ RunAt(r, "final_save")
  /\ LET d == SetPath(Mem(r), "buildTimings", FinalTimings(r))
     IN /\ projects' = [projects EXCEPT ![runs[r].job] = SaveDoc(@, d)]
        /\ runs' = [runs EXCEPT ![r] = Ended(r, "finally")]
        /\ readyWithLibrary' = (readyWithLibrary \/ runs[r].library)
  /\ UNCHANGED <<template, child, activeBuildProcesses, cancelReq, rebuildReq,
                 cancelsDone, rebuildsDone, overlapped,
                 aiUnityConfig, lastRequest, updatesDone,
                 cachedLibrary, cacheFiles, projectStorage, now, persist, lastReply, faults>>

\* Failed without line 2246 (project.error = e.message)
Failed_NoError(r) ==
  SetPath(SetPath(Mem(r), "status", "failed"), "buildTimings", FinalTimings(r))

\* lines 2243-2255: the document the catch block builds
Failed(r) ==
  SetPath(SetPath(SetPath(Mem(r), "status", "failed"),
                  "error", runs[r].err),
          "buildTimings", FinalTimings(r))

\* lines 2243-2258: catch: status failed, error message, timings, save()
RunBuild_CatchSave(r) ==
  /\ RunAt(r, "catch")
  /\ LET d == Failed(r)
     IN /\ projects' = [projects EXCEPT ![runs[r].job] = SaveDoc(@, d)]
        /\ runs' = [runs EXCEPT ![r] = Ended(r, "finally")]
  /\ UNCHANGED <<template, child, activeBuildProcesses, cancelReq, rebuildReq,
                 cancelsDone, rebuildsDone, overlapped,
                 aiUnityConfig, lastRequest, updatesDone,
                 cachedLibrary, cacheFiles, projectStorage, readyWithLibrary, now, persist, lastReply, faults>>

\* RunBuild_Finally without the rm of line 2261
RunBuild_Finally_KeepsDir(r) ==
  /\ RunAt(r, "finally")
  /\ runs' = [runs EXCEPT ![r] = Ended(r, "done")]
  /\ UNCHANGED <<template, projects, child, activeBuildProcesses, cancelReq, rebuildReq,
                 cancelsDone, rebuildsDone, overlapped,
                 aiUnityConfig, lastRequest, updatesDone,
                 cachedLibrary, cacheFiles, projectStorage, readyWithLibrary, now, persist, lastReply, faults>>

\* lines 2259-2265: finally: remove the sandbox directory
RunBuild_Finally(r) ==
  /\ RunAt(r, "finally")
  /\ runs' = [runs EXCEPT ![r] = [Ended(r, "done") EXCEPT !.sandbox = FALSE]]
  /\ UNCHANGED <<template, projects, child, activeBuildProcesses, cancelReq, rebuildReq,
                 cancelsDone, rebuildsDone, overlapped,
                 aiUnityConfig, lastRequest, updatesDone,
                 cachedLibrary, cacheFiles, projectStorage, readyWithLibrary, now, persist, lastReply, faults>>

\* ------------------------------------------------------------ cancelBuild
\* lines 293-296: { ...buildTimings, finishedAt: now }
CancelTimings(t) == [t EXCEPT !.finishedAt = "cancel"]

\* CancelBuild_Find without the status check of lines 286-289
CancelBuild_Find_NoGuard(j) ==
  /\ cancelReq.pc = "idle"
  /\ cancelsDone < MaxCancels
  /\ projects[j].exists
  /\ LET d == SetPath(SetPath(SetPath(Loaded(projects[j]), "status", "failed"),
                               "error", ErrCancelled),
                       "buildTimings", CancelTimings(projects[j].buildTimings))
     IN cancelReq' = [pc |-> "save", job |-> j, seen |-> projects[j].status,
                      doc |-> d.doc, dirty |-> d.dirty]
  /\ UNCHANGED <<template, projects, runs, child, activeBuildProcesses, rebuildReq,
                 rebuildsDone, overlapped,
                 aiUnityConfig, lastRequest, updatesDone,
                 cachedLibrary, cacheFiles, projectStorage, readyWithLibrary, now, persist, lastReply, cancelsDone, faults>>

\* lines 282-296: findById; a job that is not queued/running is answered at
\* once with its unchanged status, otherwise the document is marked failed.
CancelBuild_Find(j) ==
  /\ cancelReq.pc = "idle"
  /\ cancelsDone < MaxCancels
  /\ projects[j].exists
  /\ IF projects[j].status \notin {"queued", "running"}
     THEN /\ lastReply' = [op |-> "cancel", status |-> projects[j].status,
                           accepted |-> FALSE, killed |-> FALSE]
          /\ cancelsDone' = cancelsDone + 1
          /\ UNCHANGED cancelReq
     ELSE /\ LET d == SetPath(SetPath(SetPath(Loaded(projects[j]), "status", "failed"),
                                      "error", ErrCancelled),
                              "buildTimings", CancelTimings(projects[j].buildTimings))
             IN cancelReq' = [pc |-> "save", job |-> j, seen |-> projects[j].status,
                              doc |-> d.doc, dirty |-> d.dirty]
          /\ UNCHANGED <<lastReply, cancelsDone>>
  /\ UNCHANGED <<template, projects, runs, child, activeBuildProcesses, rebuildReq,
                 rebuildsDone, overlapped,
                 aiUnityConfig, lastRequest, updatesDone,
                 cachedLibrary, cacheFiles, projectStorage, readyWithLibrary, now, persist, faults>>

\* line 297: await project.save()
CancelBuild_Save(j) ==
  /\ cancelReq.pc = "save"
  /\ cancelReq.job = j
  /\ projects' = [projects EXCEPT ![j] = SaveDoc(@, cancelReq)]
  /\ cancelReq' = [cancelReq EXCEPT !.pc = "kill", !.dirty = {}]
  /\ UNCHANGED <<template, runs, child, activeBuildProcesses, rebuildReq, cancelsDone,
                 rebuildsDone, overlapped,
                 aiUnityConfig, lastRequest, updatesDone,
                 cachedLibrary, cacheFiles, projectStorage, readyWithLibrary, now, persist, lastReply, faults>>

\* lines 299-308: kill the registered child, if any, and answer
CancelBuild_Kill(j) ==
  /\ cancelReq.pc = "kill"
  /\ cancelReq.job = j
  /\ LET h == activeBuildProcesses[j]
         hit == h # NoHandle /\ child[h[1]].st = "alive"
     IN /\ child' = IF h # NoHandle THEN Kill(h[1]) ELSE child
        /\ runs' = IF hit THEN [runs EXCEPT ![h[1]].cancelKilled = TRUE] ELSE runs
        /\ lastReply' = [op |-> "cancel", status |-> cancelReq.doc.status,
                         accepted |-> TRUE, killed |-> hit]
  /\ cancelReq' = IdleReq
  /\ cancelsDone' = cancelsDone + 1
  /\ UNCHANGED <<template, projects, activeBuildProcesses, rebuildReq, rebuildsDone, overlapped,
                 aiUnityConfig, lastRequest, updatesDone,
                 cachedLibrary, cacheFiles, projectStorage, readyWithLibrary, now, persist, faults>>

\* ---------------------------------------------------------------- rebuild
\* lines 449-461: the document rebuild() builds from the loaded record
Reset(stored) ==
  LET d0 == SetPath(SetPath(Loaded(stored), "status", "queued"), "error", None)
      d1 == IF IsAndroidApk(stored.buildTarget)
            THEN SetPath(SetPath(d0, "resultStorageKey", None),
                         "androidApkStorageKey", None)
            ELSE SetPath(SetPath(SetPath(d0, "resultStorageKey", None),
                                 "webglIndexStorageKey", None),
                         "webglZipStorageKey", None)
  IN SetPath(d1, "buildTimings", NoTimings)

\* Rebuild_Find with a status check: a queued or running job is answered at
\* once with its unchanged status
Rebuild_Find_Guarded(j) ==
  /\ rebuildReq.pc = "idle"
  /\ NextRun \in RunIds
  /\ projects[j].exists
  /\ IF projects[j].status \in {"queued", "running"}
     THEN /\ lastReply' = [op |-> "rebuild", status |-> projects[j].status,
                           accepted |-> FALSE, killed |-> FALSE]
          /\ rebuildsDone' = rebuildsDone + 1
          /\ UNCHANGED rebuildReq
     ELSE /\ LET d == Reset(projects[j])
             IN rebuildReq' = [pc |-> "save", job |-> j, seen |-> projects[j].status,
                               doc |-> d.doc, dirty |-> d.dirty]
          /\ UNCHANGED <<lastReply, rebuildsDone>>
  /\ UNCHANGED <<template, projects, runs, child, activeBuildProcesses, cancelReq,
                 cancelsDone, overlapped,
                 aiUnityConfig, lastRequest, updatesDone,
                 cachedLibrary, cacheFiles, projectStorage, readyWithLibrary, now, persist, faults>>

\* lines 444-461: findById and the assignments; there is no status check
Rebuild_Find(j) ==
  /\ rebuildReq.pc = "idle"
  /\ NextRun \in RunIds
  /\ projects[j].exists
  /\ LET d == Reset(projects[j])
     IN rebuildReq' = [pc |-> "save", job |-> j, seen |-> projects[j].status,
                       doc |-> d.doc, dirty |-> d.dirty]
  /\ UNCHANGED <<template, projects, runs, child, activeBuildProcesses, cancelReq,
                 cancelsDone, rebuildsDone, overlapped,
                 aiUnityConfig, lastRequest, updatesDone,
                 cachedLibrary, cacheFiles, projectStorage, readyWithLibrary, now, persist, lastReply, faults>>

\* lines 462-465: save(), then runBuild is started and the request answered
Rebuild_Save(j) ==
  /\ rebuildReq.pc = "save"
  /\ rebuildReq.job = j
  /\ projects' = [projects EXCEPT ![j] = SaveDoc(@, rebuildReq)]
  /\ StartRunBuild(j)
  /\ rebuildReq' = IdleReq
  /\ rebuildsDone' = rebuildsDone + 1
  /\ overlapped' = (overlapped \/ ActiveRuns(j) # {})
  /\ lastReply' = [op |-> "rebuild", status |-> rebuildReq.doc.status,
                   accepted |-> TRUE, killed |-> FALSE]
  /\ UNCHANGED <<template, child, activeBuildProcesses, cancelReq, cancelsDone, faults,
                 aiUnityConfig, lastRequest, updatesDone,
                 cachedLibrary, cacheFiles, projectStorage, readyWithLibrary, now, persist>>

\* ------------------------------------------------------------------ Next
Next ==
  \/ \E j \in JobIds : CreateFromTemplate(j)
  \/ \E j \in JobIds, t \in {"webgl", "android_apk"} : CreateFromAi(j, t, NoConfig, GenOk, GenOk)
  \/ \E r \in RunIds : RunBuild_Find(r)
  \/ \E r \in RunIds : RunBuild_SaveRunning(r)
  \/ \E r \in RunIds : RunBuild_Workdir(r)
  \/ \E r \in RunIds : RunBuild_WorkdirThrows(r)
  \/ \E r \in RunIds : RunBuild_Prepare(r, TopLevelTree, FALSE, FALSE)
  \/ \E r \in RunIds : RunBuild_Capture(r)
  \/ \E r \in RunIds : RunBuild_UploadMedia(r, FALSE)
  \/ \E r \in RunIds : RunBuild_Publish(r, 0)
  \/ \E r \in RunIds : RunBuild_FinalSave(r)
  \/ \E r \in RunIds : RunBuild_CatchSave(r)
  \/ \E r \in RunIds : RunBuild_Finally(r)
  \/ \E r \in RunIds, code \in {"0", "1"} : ChildExit(r, code)
  \/ \E r \in RunIds : TimeoutKill(r)
  \/ \E r \in RunIds : ChildError(r)
  \/ \E r \in RunIds : UnityClose(r)
  \/ \E r \in RunIds : FfmpegClose(r)
  \/ \E j \in JobIds : CancelBuild_Find(j)
  \/ \E j \in JobIds : CancelBuild_Save(j)
  \/ \E j \in JobIds : CancelBuild_Kill(j)
  \/ \E j \in JobIds : Rebuild_Find(j)
  \/ \E j \in JobIds : Rebuild_Save(j)

Spec == Init /\ [][Next]_vars

\* ------------------------------------------- the job store rejects a write
\* line 547 rejects: outside the try block, the promise of runBuild rejects
RunBuild_SaveRunningFails(r) ==
  /\ RunAt(r, "save_running")
  /\ Inject
  /\ runs' = [runs EXCEPT ![r] = Ended(r, "done")]
  /\ UNCHANGED <<template, projects, child, activeBuildProcesses, cancelReq, rebuildReq,
                 cancelsDone, rebuildsDone, overlapped,
                 aiUnityConfig, lastRequest, updatesDone,
                 cachedLibrary, cacheFiles, projectStorage, readyWithLibrary, now, persist, lastReply>>

\* line 2242 rejects: caught by the catch of line 2243; the paths modified so
\* far stay modified
RunBuild_FinalSaveFails(r) ==
  /\ RunAt(r, "final_save")
  /\ Inject
  /\ LET d == SetPath(Mem(r), "buildTimings", FinalTimings(r))
     IN runs' = [Throw(r, "final_save", ErrSave) EXCEPT
                   ![r].doc = d.doc, ![r].dirty = d.dirty]
  /\ UNCHANGED <<template, projects, child, activeBuildProcesses, cancelReq, rebuildReq,
                 cancelsDone, rebuildsDone, overlapped,
                 aiUnityConfig, lastRequest, updatesDone,
                 cachedLibrary, cacheFiles, projectStorage, readyWithLibrary, now, persist, lastReply>>

\* line 2255 rejects: swallowed by the inner catch of lines 2256-2258
RunBuild_CatchSaveFails(r) ==
  /\ RunAt(r, "catch")
  /\ Inject
  /\ runs' = [runs EXCEPT ![r] = Ended(r, "finally")]
  /\ UNCHANGED <<template, projects, child, activeBuildProcesses, cancelReq, rebuildReq,
                 cancelsDone, rebuildsDone, overlapped,
                 aiUnityConfig, lastRequest, updatesDone,
                 cachedLibrary, cacheFiles, projectStorage, readyWithLibrary, now, persist, lastReply>>

NextStoreFaults ==
  \/ Next
  \/ \E r \in RunIds : RunBuild_SaveRunningFails(r)
  \/ \E r \in RunIds : RunBuild_FinalSaveFails(r)
  \/ \E r \in RunIds : RunBuild_CatchSaveFails(r)

SpecStoreFaults == Init /\ [][NextStoreFaults]_vars

TypeOK ==
  /\ \A j \in JobIds : projects[j].status \in {None, "queued", "running", "ready", "failed"}
  /\ cancelsDone \in 0..MaxCancels
  /\ rebuildsDone \in 0..MaxRuns
  /\ overlapped \in BOOLEAN
  /\ updatesDone \in 0..MaxUpdates

\* ================================================================ claims
Status(j) == projects[j].status
Quiet(j) == ActiveRuns(j) = {} /\ cancelReq.pc = "idle" /\ rebuildReq.pc = "idle"
NoRebuild == rebuildsDone = 0 /\ rebuildReq.pc = "idle"
RunEndsWith(r, pc) == runs[r].pc = pc /\ runs'[r].pc = "finally"

\* C1: the persisted status of a job changes only along queued->running,
\* running->ready, running->failed, queued->failed (by cancel) and
\* ready->queued, failed->queued (by rebuild); no step takes ready or failed
\* to running or ready.
C1_StatusEdges ==
  [][\A j \in JobIds :
       LET a == projects[j].status
           b == projects'[j].status
       IN (projects[j].exists /\ a # b) =>
            \/ a = "queued" /\ b = "running"
            \/ a = "running" /\ b \in {"ready", "failed"}
            \/ a = "queued" /\ b = "failed" /\ cancelReq' # cancelReq
            \/ a \in {"ready", "failed"} /\ b = "queued" /\ rebuildReq' # rebuildReq]_vars

\* C2: a cancel accepted on a queued or running job and followed by no
\* rebuild leaves the job, once the run that was pending or active has
\* finished, failed and without any result reference (here: in a behaviour
\* where nothing in the environment failed).
C2_CancelledStaysFailed ==
  \A j \in JobIds :
    (lastReply.op = "cancel" /\ lastReply.accepted /\ NoRebuild /\ Quiet(j)
       /\ faults = 0)
      => /\ Status(j) = "failed"
         /\ \A f \in ResultRefs : projects[j][f] = None

\* C3: a cancel on a running job whose process is registered kills that
\* process, and the run whose process was killed ends with status failed
\* and the cancellation marker as the error.
C3_KilledRunKeepsMarker ==
  [][\A r \in RunIds :
       LET j == runs[r].job
       IN /\ (cancelsDone' # cancelsDone /\ cancelReq.pc = "kill"
                /\ activeBuildProcesses[j] = <<r, child[r].stage>>
                /\ child[r].st = "alive")
              => child'[r].st = "exited" /\ child'[r].code = "null"
          /\ (runs[r].cancelKilled /\ RunEndsWith(r, "catch"))
              => /\ projects'[j].status = "failed"
                 /\ projects'[j].error = ErrCancelled]_vars

\* C4: a cancel request that finds the job ready or failed is answered at
\* once with that status and changes nothing of the job record, of any
\* process and of the registry.
C4_CancelTerminalNoop ==
  [][\A j \in JobIds :
       (/\ cancelReq.pc = "idle"
        /\ <<cancelReq, cancelsDone>>' # <<cancelReq, cancelsDone>>
        /\ Status(j) \in {"ready", "failed"})
         => /\ cancelsDone' = cancelsDone + 1
            /\ cancelReq' = cancelReq
            /\ lastReply' = [op |-> "cancel", status |-> Status(j),
                             accepted |-> FALSE, killed |-> FALSE]
            /\ UNCHANGED <<projects, runs, child, activeBuildProcesses>>]_vars

\* a cancel on a ready job has been answered with "ready"
C4_Witness ==
  /\ lastReply = [op |-> "cancel", status |-> "ready", accepted |-> FALSE,
                  killed |-> FALSE]
  /\ Status("p1") = "ready"
  /\ projects["p1"].resultStorageKey # None

\* C5 as stated: a rebuild request starts a new run only when the status it
\* finds is ready or failed.
C5_RebuildOnlyFromTerminal ==
  [][\A j \in JobIds :
       (rebuildsDone' # rebuildsDone /\ Cardinality(StartedRuns)' # Cardinality(StartedRuns))
         => rebuildReq.seen \in {"ready", "failed"}]_vars

\* C5 amended: every rebuild request that is answered has started a new
\* pipeline run, whatever status it found (also queued or running, and also
\* while a run of the job is still active), and has written status queued
\* unless queued is the status it found.
C5_RebuildAlwaysStartsRun ==
  [][\A j \in JobIds :
       rebuildsDone' # rebuildsDone
         => /\ rebuildsDone' = rebuildsDone + 1
            /\ Cardinality(StartedRuns)' = Cardinality(StartedRuns) + 1
            /\ \E r \in RunIds : runs[r].pc = "idle" /\ runs'[r].pc = "findById"
                                   /\ runs'[r].job = j
            /\ rebuildReq.seen # "queued" => projects'[j].status = "queued"]_vars

\* a rebuild was answered while a run was active: two runs overlap
C5_Witness ==
  /\ lastReply.op = "rebuild"
  /\ Cardinality(ActiveRuns("p1")) = 2

LiveTools(j) ==
  {r \in RunIds : runs[r].job = j /\ child[r].st = "alive"
                    /\ child[r].stage \in UnityStages}

\* C6 as stated: in every reachable state at most one tool process is alive
\* for a job id, and while it is alive the registry entry of the job id is
\* that process.
C6_OneLiveToolRegistered ==
  \A j \in JobIds :
    /\ Cardinality(LiveTools(j)) <= 1
    /\ \A r \in LiveTools(j) : activeBuildProcesses[j] = <<r, child[r].stage>>

\* C6 amended: as long as no run of the job id has been started while
\* another run of it was pending or active, at most one tool process is
\* alive for the job id and the registry entry of the job id is that
\* process.
C6_OneLiveToolIfSerial ==
  \A j \in JobIds :
    ~overlapped
      => /\ Cardinality(LiveTools(j)) <= 1
         /\ \A r \in LiveTools(j) : activeBuildProcesses[j] = <<r, child[r].stage>>

\* the run of a rebuild that followed the end of the first run waits for its
\* live, registered capture pass
C6_Witness ==
  \E r \in RunIds :
    /\ ~overlapped
    /\ rebuildsDone = 1
    /\ ActiveRuns("p1") = {r}
    /\ child[r] = [stage |-> "capture_media", st |-> "alive", code |-> ""]
    /\ activeBuildProcesses["p1"] = <<r, "capture_media">>

\* C7: a failure of the media-capture step (non-zero exit, kill by timeout,
\* spawn error) never sets the status to failed.
C7_CaptureFailureNotFatal ==
  [][\A r \in RunIds :
       (runs[r].thrownAt = "capture_media" /\ ~runs[r].cancelKilled
          /\ runs[r].err \in {UnityError("1"), UnityError("null"), ErrSpawn}
          /\ RunEndsWith(r, "catch"))
         => projects'[runs[r].job].status # "failed"]_vars

EncoderFailed(r) == runs[r].encoder \in {"unavailable", "nonzero"}

\* C8 as stated: a run whose encoder was unavailable or exited non-zero and
\* whose other steps succeeded ends ready with the main result reference
\* set and every media reference absent.
C8_EncoderFailureNoMedia ==
  [][\A r \in RunIds :
       (EncoderFailed(r) /\ NoRebuild /\ RunEndsWith(r, "final_save"))
         => LET p == projects'[runs[r].job]
            IN /\ p.status = "ready"
               /\ p.resultStorageKey # None
               /\ \A f \in MediaRefs : p[f] = None]_vars

\* C8 amended: an encoder failure is never the step at which a run fails; a
\* run of a submitted job whose encoder was unavailable or exited non-zero
\* and whose other steps succeeded ends ready with the main result reference
\* set and no preview video reference (cover and screenshots are published
\* independently of the encoder).
C8_EncoderFailureNoVideo ==
  [][\A r \in RunIds :
       /\ runs'[r].thrownAt \notin {"upload_media", "ffmpeg"}
       /\ (EncoderFailed(r) /\ NoRebuild /\ RunEndsWith(r, "final_save"))
            => LET p == projects'[runs[r].job]
               IN /\ p.status = "ready"
                  /\ p.resultStorageKey # None
                  /\ p.previewVideoUrl = None]_vars

\* a run whose encoder failed has saved ready, with cover and screenshots
C8_Witness ==
  \E r \in RunIds :
    /\ runs[r].pc = "finally"
    /\ EncoderFailed(r)
    /\ Status("p1") = "ready"
    /\ projects["p1"].resultStorageKey = ZipKey("p1")
    /\ projects["p1"].previewImageUrl = Url
    /\ projects["p1"].previewVideoUrl = None

\* the steps of a run in program order, and those that precede one of them
PipelineOrder(target) ==
  <<"workdir">> \o PrepSteps \o
  <<"capture_media", "library_cache_save", "upload_media">> \o PublishSteps(target)

CompletedBefore(step, target, aiCfg) ==
  LET seq == PipelineOrder(target)
      k == CHOOSE i \in 1..Len(seq) : seq[i] = step
  IN {seq[i] : i \in 1..(k - 1)} \ (IF aiCfg THEN {} ELSE {"inject_ai_patch"})

C10_NoJobLeftPending ==
  \A j \in JobIds :
    (projects[j].exists /\ Quiet(j)) => Status(j) \in {"ready", "failed"}

\* ------------------------------------------- one submitted job, one run
\* The behaviours of a job that is submitted and neither cancelled nor
\* rebuilt.  The event loop runs a continuation that is ready, and a child
\* that has exited gets its 'close' event.
NextOneRun ==
  \/ \E j \in JobIds : CreateFromTemplate(j)
  \/ \E j \in JobIds, t \in {"webgl", "android_apk"} : CreateFromAi(j, t, NoConfig, GenOk, GenOk)
  \/ \E r \in RunIds : RunBuild_Find(r)
  \/ \E r \in RunIds : RunBuild_SaveRunning(r)
  \/ \E r \in RunIds : RunBuild_Workdir(r)
  \/ \E r \in RunIds : RunBuild_WorkdirThrows(r)
  \/ \E r \in RunIds : RunBuild_Prepare(r, TopLevelTree, FALSE, FALSE)
  \/ \E r \in RunIds : RunBuild_Capture(r)
  \/ \E r \in RunIds : RunBuild_UploadMedia(r, FALSE)
  \/ \E r \in RunIds : RunBuild_Publish(r, 0)
  \/ \E r \in RunIds : RunBuild_FinalSave(r)
  \/ \E r \in RunIds : RunBuild_CatchSave(r)
  \/ \E r \in RunIds : RunBuild_Finally(r)
  \/ \E r \in RunIds, code \in {"0", "1"} : ChildExit(r, code)
  \/ \E r \in RunIds : TimeoutKill(r)
  \/ \E r \in RunIds : ChildError(r)
  \/ \E r \in RunIds : UnityClose(r)
  \/ \E r \in RunIds : FfmpegClose(r)

SpecOneRun ==
  /\ Init
  /\ [][NextOneRun]_vars
  /\ WF_vars(\E r \in RunIds : UnityClose(r))
  /\ WF_vars(\E r \in RunIds : RunBuild_CatchSave(r))
  /\ WF_vars(\E r \in RunIds : RunBuild_Finally(r))

\* ------------------------------------------- update, attachMedia
\* line 317-322: a buildTarget of the request is stored, 'android' as
\* 'android_apk'; any other string is ignored
NormTarget(bt) ==
  IF bt \in {"webgl", "android_apk"} THEN bt
  ELSE IF bt = "android" THEN "android_apk" ELSE None

\* Update that also puts the job back to queued
Update_Requeues(j, bt, dto) ==
  /\ projects[j].exists
  /\ updatesDone < MaxUpdates
  /\ LET d0 == SetPath(Loaded(projects[j]), "status", "queued")
         d1 == IF NormTarget(bt) # None THEN SetPath(d0, "buildTarget", NormTarget(bt))
               ELSE d0
         d2 == IF HasAiUpdate(dto) THEN SetPath(d1, "aiUnityConfig", TRUE) ELSE d1
     IN projects' = [projects EXCEPT ![j] = SaveDoc(@, d2)]
  /\ aiUnityConfig' = IF HasAiUpdate(dto)
                        THEN [aiUnityConfig EXCEPT ![j] = UpdatedCfg(@, dto)]
                        ELSE aiUnityConfig
  /\ lastRequest' = [op |-> "update", cfg |-> dto, draft |-> NoGen, unity |-> NoGen]
  /\ updatesDone' = updatesDone + 1
  /\ lastReply' = [op |-> "update", status |-> projects[j].status,
                   accepted |-> TRUE, killed |-> FALSE]
  /\ UNCHANGED <<template, runs, child, activeBuildProcesses, cancelReq, rebuildReq,
                 cancelsDone, rebuildsDone, overlapped, faults,
                 cachedLibrary, cacheFiles, projectStorage, readyWithLibrary, now, persist>>

\* update (lines 311-398): findById, buildTarget and aiUnityConfig of the
\* request, save().  No other operation writes these two paths, so the read
\* and the write are taken as one step.  bt = None: no buildTarget in the
\* request; dto: the config fields of the request.
Update(j, bt, dto) ==
  /\ projects[j].exists
  /\ updatesDone < MaxUpdates
  /\ LET d0 == Loaded(projects[j])
         d1 == IF NormTarget(bt) # None THEN SetPath(d0, "buildTarget", NormTarget(bt))
               ELSE d0
         d2 == IF HasAiUpdate(dto) THEN SetPath(d1, "aiUnityConfig", TRUE) ELSE d1
     IN projects' = [projects EXCEPT ![j] = SaveDoc(@, d2)]
  /\ aiUnityConfig' = IF HasAiUpdate(dto)
                        THEN [aiUnityConfig EXCEPT ![j] = UpdatedCfg(@, dto)]
                        ELSE aiUnityConfig
  /\ lastRequest' = [op |-> "update", cfg |-> dto, draft |-> NoGen, unity |-> NoGen]
  /\ updatesDone' = updatesDone + 1
  /\ lastReply' = [op |-> "update", status |-> projects[j].status,
                   accepted |-> TRUE, killed |-> FALSE]
  /\ UNCHANGED <<template, runs, child, activeBuildProcesses, cancelReq, rebuildReq,
                 cancelsDone, rebuildsDone, overlapped, faults,
                 cachedLibrary, cacheFiles, projectStorage, readyWithLibrary, now, persist>>

\* PUT /projects/:id (controller lines 108-114) behind the global
\* ValidationPipe: an invalid body is answered 400 before the service runs
Controller_Update(j, bt, dto) ==
  IF DtoValid(dto) /\ bt \in {None, "webgl", "android_apk", "android"}
    THEN Update(j, bt, dto)
    ELSE /\ projects[j].exists
         /\ updatesDone < MaxUpdates
         /\ updatesDone' = updatesDone + 1
         /\ lastReply' = [op |-> "update", status |-> None, accepted |-> FALSE,
                          killed |-> FALSE]
         /\ UNCHANGED <<template, projects, runs, child, activeBuildProcesses, cancelReq,
                        rebuildReq, cancelsDone, rebuildsDone, overlapped,
                        aiUnityConfig, lastRequest, faults,
                        cachedLibrary, cacheFiles, projectStorage, readyWithLibrary, now, persist>>

\* attachMedia (lines 468-524): uploaded files become the media references
AttachMedia(j, image, shots, video) ==
  /\ projects[j].exists
  /\ LET d0 == Loaded(projects[j])
         d1 == IF image THEN SetPath(d0, "previewImageUrl", Url) ELSE d0
         d2 == IF shots THEN SetPath(d1, "screenshotUrls", Url) ELSE d1
         d3 == IF video THEN SetPath(d2, "previewVideoUrl", Url) ELSE d2
     IN projects' = [projects EXCEPT ![j] = SaveDoc(@, d3)]
  /\ lastReply' = [op |-> "attachMedia", status |-> projects[j].status,
                   accepted |-> TRUE, killed |-> FALSE]
  /\ UNCHANGED <<template, runs, child, activeBuildProcesses, cancelReq, rebuildReq,
                 cancelsDone, rebuildsDone, overlapped,
                 aiUnityConfig, lastRequest, updatesDone,
                 cachedLibrary, cacheFiles, projectStorage, readyWithLibrary, now, persist, faults>>

\* one submitted job and its run, with update and attachMedia requests
NextOps ==
  \/ NextOneRun
  \/ \E j \in JobIds, bt \in {None, "webgl", "android", "ios"},
          dto \in {NoConfig, [NoConfig EXCEPT !["timeScale"] = Num(20)]} :
       Update(j, bt, dto)
  \/ \E j \in JobIds, image, shots, video \in BOOLEAN :
       AttachMedia(j, image, shots, video)

SpecOps == Init /\ [][NextOps]_vars

\* submit, runs, rebuild requests and updates of the buildTarget
NextRebuilds ==
  \/ NextOneRun
  \/ \E j \in JobIds : Rebuild_Find(j)
  \/ \E j \in JobIds : Rebuild_Save(j)
  \/ \E j \in JobIds, bt \in {"webgl", "android"} : Update(j, bt, NoConfig)

SpecRebuilds == Init /\ [][NextRebuilds]_vars

OutLens == {0, 1, TailClip, TailClip + 1, SummaryClip, SummaryClip + 1, 1000000}

\* C12: the close of a tool process that was killed (exit code null) rejects
\* the invocation with the runner's message, whose size is between 1 and
\* a fixed bound whatever the size of the output; the run then ends, with
\* status failed and that message.
C12_TimeoutFails ==
  /\ [][\A r \in RunIds :
          (child[r].code = "null" /\ child'[r] = NoChild /\ Waiting(r))
            => /\ runs'[r].pc = "catch"
               /\ runs'[r].err = UnityError("null")
               /\ \A n \in OutLens : \A m \in SummaryLens(n) :
                    UnityErrorLen("null", n, m) \in 1..(PrefixLen("null") + 15 + SummaryClip)]_vars
  /\ \A r \in RunIds :
       (child[r].code = "null")
         ~> (runs[r].pc = "done" /\ Status(runs[r].job) = "failed"
               /\ projects[runs[r].job].error = UnityError("null"))

\* the run whose capture pass was killed by the timer has ended failed
C12_Witness ==
  \E r \in RunIds :
    /\ runs[r].pc = "done"
    /\ Status("p1") = "failed"
    /\ projects["p1"].error = UnityError("null")
    /\ "unity_build" \in projects["p1"].buildTimings.steps

\* C13: in every reachable state the persisted error of a job is set only
\* if its persisted status is failed.
C13_ErrorOnlyIfFailed ==
  \A j \in JobIds : projects[j].error # None => Status(j) = "failed"

\* the result references specific to a target, and to the other target
OwnRefs(target) ==
  IF IsAndroidApk(target) THEN {"androidApkStorageKey"}
  ELSE {"webglZipStorageKey", "webglIndexStorageKey"}
OtherRefs(target) == (ResultRefs \ {"resultStorageKey"}) \ OwnRefs(target)

\* C14: a result reference is written only by the save that ends a run with
\* status ready, and only into the primary slot and the slots of the job's
\* stored buildTarget.
C14_RefsMatchStoredTarget ==
  [][\A j \in JobIds : \A f \in ResultRefs :
       (projects'[j][f] # projects[j][f] /\ projects'[j][f] # None)
         => /\ \E r \in RunIds : RunEndsWith(r, "final_save")
            /\ projects'[j].status = "ready"
            /\ f \in {"resultStorageKey"} \cup OwnRefs(projects[j].buildTarget)]_vars

\* C15: a rebuild keeps the job record and clears the error, the
\* primary reference and the references of the job's buildTarget; from then
\* until the runs of the job have ended no step changes a reference specific
\* to the other target.
C15_OtherTargetKept ==
  [][\A j \in JobIds :
       LET T == projects[j].buildTarget
       IN /\ rebuildsDone' # rebuildsDone
               => /\ projects'[j].exists
                  /\ \A f \in {"error", "resultStorageKey"} \cup OwnRefs(T) :
                       projects'[j][f] = None
          /\ (rebuildReq.pc = "save" \/ (rebuildsDone > 0 /\ ActiveRuns(j) # {}))
               => \A f \in OtherRefs(T) : projects'[j][f] = projects[j][f]]_vars

\* the fields of the record the build lifecycle owns
LifecycleFields == {"status", "error", "buildTimings"} \cup ResultRefs
ConfigFields == {"buildTarget", "aiUnityConfig"}
ChangedFields(j) == {f \in Fields : projects'[j][f] # projects[j][f]}
\* the step is taken by a pipeline run, a cancel request or a rebuild request
BuildStep == runs' # runs \/ cancelReq' # cancelReq \/ rebuildReq' # rebuildReq

\* C16 as stated: once a job exists, its status, buildTarget,
\* configOverrides, result references, error and timings change only in a
\* step of a pipeline run, of a cancel request or of a rebuild request.
C16_OnlyBuildStepsWrite ==
  [][\A j \in JobIds :
       (projects[j].exists /\ ChangedFields(j) \cap (LifecycleFields \cup ConfigFields) # {})
         => BuildStep]_vars

\* C16 amended: once a job exists, its status, result references, error and
\* timings change only in a step of a pipeline run, of a cancel request or
\* of a rebuild request; its buildTarget and configOverrides change only in
\* an update request, which changes nothing else of these fields; an
\* attachMedia request changes media references only.
C16_WritersOfTheRecord ==
  [][\A j \in JobIds :
       projects[j].exists
         => /\ ChangedFields(j) \cap LifecycleFields # {} => BuildStep
            /\ ChangedFields(j) \cap ConfigFields # {}
                 => ~BuildStep /\ lastReply'.op = "update"
            /\ (~BuildStep /\ lastReply'.op = "update")
                 => ChangedFields(j) \subseteq ConfigFields
            /\ (~BuildStep /\ lastReply'.op = "attachMedia")
                 => ChangedFields(j) \subseteq MediaRefs]_vars

\* an update has switched the buildTarget of a job while its run is active
C16_Witness ==
  /\ lastReply.op = "update"
  /\ projects["p1"].buildTarget = "android_apk"
  /\ \E r \in RunIds : runs[r].pc = "publish" /\ runs[r].doc.buildTarget = "webgl"

\* ------------------------------------------------ config requests
\* request values tried for a field: both ends of the accepted range and
\* the first value beyond each, a value of the wrong type; colours written
\* in lower case, in upper case, without '#', with three digits, not
\* hexadecimal
HexLower == <<"#", "1", "a", "2", "b", "3", "c">>
HexUpper == <<"#", "1", "A", "2", "B", "3", "C">>
HexBare == <<"1", "a", "2", "b", "3", "c">>
HexShort == <<"#", "a", "b", "c">>
NotHex == <<"#", "z", "z", "z", "z", "z", "z">>
Samples(f) ==
  IF f \in NumberFields
    THEN {Num(Lo(f) - 1), Num(Lo(f)), Num(Hi(f)), Num(Hi(f) + 1), Str(<<"9">>)}
  ELSE IF f \in ColourFields
    THEN {Str(HexLower), Str(HexUpper), Str(HexBare), Str(HexShort), Str(NotHex)}
  ELSE IF f \in StringFields THEN {Str(<<"n", "e", "o", "n">>), Str(<<" ", "n", " ">>)}
  ELSE IF f = "mechanics" THEN {Arr(2), Arr(13)}
  ELSE {Bool(TRUE), Bool(FALSE)}
\* request bodies: no config field, or one config field
RequestBodies ==
  {NoConfig} \cup UNION {{[NoConfig EXCEPT ![f] = v] : v \in Samples(f)} : f \in CfgFields}

\* the requests that write the stored config of a job
NextConfig ==
  \/ \E j \in JobIds : CreateFromTemplate(j)
  \/ \E j \in JobIds, dto \in RequestBodies,
        rc \in {NoConfig, [NoConfig EXCEPT !["timeScale"] = Num(15)]},
        draft \in GenOutcomes, unity \in GenOutcomes :
       AiCreate(j, "webgl", dto, rc, draft, unity)
  \/ \E j \in JobIds, bt \in {None, "android"}, dto \in RequestBodies :
       Controller_Update(j, bt, dto)

SpecConfig == Init /\ [][NextConfig]_vars

\* C17: every numeric field of a stored config lies within its range and
\* every colour field is #RRGGBB in upper case or its fallback (a field that
\* was never set is missing).
C17_StoredConfigValidated ==
  \A j \in JobIds : \A f \in CfgFields :
    LET v == aiUnityConfig[j][f]
    IN \/ v = Undefined
       \/ /\ f \in NumberFields => v.t = "number" /\ v.n \in Lo(f)..Hi(f)
          /\ f \in ColourFields =>
               \/ v = Fallback(f)
               \/ v.t = "string" /\ IsHashRRGGBB(v.s) /\ v.s = ToUpperCase(v.s)

\* C18: an accepted create-from-draft request stores, for every config
\* field, the caller's value when the request has one, otherwise the
\* AI-drafted value when the draft has one, otherwise the fallback.
C18_MergePriority ==
  [][\A j \in JobIds :
       (~projects[j].exists /\ projects'[j].exists /\ projects'[j].aiUnityConfig
          /\ lastRequest'.op = "createFromAi")
         => \A f \in CfgFields :
              LET caller == lastRequest'.cfg[f]
                  drafted == UnityCfgOf(lastRequest'.unity)[f]
              IN aiUnityConfig'[j][f] =
                   IF caller # Undefined THEN caller
                   ELSE IF drafted # Undefined THEN drafted
                   ELSE Fallback(f)]_vars

\* a stored config with a caller's value over a drafted one, a drafted
\* value over a fallback and a field that only has its fallback
C18_Witness ==
  /\ projects["p1"].exists
  /\ lastRequest.op = "createFromAi"
  /\ lastRequest.unity = GenOk
  /\ lastRequest.cfg["timeScale"] = Num(20)
  /\ lastRequest.cfg["difficulty"] = Undefined
  /\ aiUnityConfig["p1"]["timeScale"] = Num(20)
  /\ aiUnityConfig["p1"]["difficulty"] = Num(7)
  /\ aiUnityConfig["p1"]["jumpForce"] = Undefined

\* C19: a create-from-draft request during which a call of the draft
\* generator fails persists a queued job and starts its pipeline.
C19_DraftFailureStillQueues ==
  [][\A j \in JobIds :
       (~projects[j].exists /\ lastRequest'.op = "createFromAi"
          /\ (~lastRequest'.draft.ok \/ ~lastRequest'.unity.ok))
         => /\ projects'[j].exists
            /\ projects'[j].status = "queued"
            /\ \E r \in RunIds : runs'[r].pc = "findById" /\ runs'[r].job = j]_vars

\* C20: a run that fails because its template is missing or its archive
\* cannot be extracted fails before the job was set to running and before
\* a sandbox directory exists.
C20_TemplateFailureBeforeRunning ==
  [][\A r \in RunIds :
       (runs[r].pc # "catch" /\ runs'[r].pc = "catch"
          /\ runs'[r].thrownAt \in {"load_template", "extract_template"})
         => /\ ~runs[r].sandbox
            /\ "save_running" \notin runs[r].steps
            /\ Status(runs[r].job) # "running"]_vars

\* ------------------------------------- Library cache and build output
\* One template, whose zip ships a Library directory or not; the primary
\* build leaves a Library directory in the project or not; the upload of
\* the output files fails at the first or at a later file; rebuild starts
\* the later runs.
NextCache ==
  \/ \E j \in JobIds : CreateFromTemplate(j)
  \/ \E j \in JobIds, t \in {"webgl", "android_apk"} :
       CreateFromAi(j, t, NoConfig, GenOk, GenOk)
  \/ \E r \in RunIds : RunBuild_Find(r)
  \/ \E r \in RunIds : RunBuild_SaveRunning(r)
  \/ \E r \in RunIds : RunBuild_Workdir(r)
  \/ \E r \in RunIds, shipped \in BOOLEAN :
       RunBuild_Prepare(r, TopLevelTree, shipped, FALSE)
  \/ \E r \in RunIds : RunBuild_Capture(r)
  \/ \E r \in RunIds, lib \in BOOLEAN : RunBuild_UploadMedia(r, lib)
  \/ \E r \in RunIds, put \in 0..(Len(OutFiles) - 1) : RunBuild_Publish(r, put)
  \/ \E r \in RunIds : RunBuild_FinalSave(r)
  \/ \E r \in RunIds : RunBuild_CatchSave(r)
  \/ \E r \in RunIds : RunBuild_Finally(r)
  \/ \E r \in RunIds, code \in {"0", "1"} : ChildExit(r, code)
  \/ \E r \in RunIds : TimeoutKill(r)
  \/ \E r \in RunIds : ChildError(r)
  \/ \E r \in RunIds : UnityClose(r)
  \/ \E r \in RunIds : FfmpegClose(r)
  \/ \E j \in JobIds : Rebuild_Find(j)
  \/ \E j \in JobIds : Rebuild_Save(j)

SpecCache == Init /\ [][NextCache]_vars

\* C21: the cache entry of the template changes only in the cache save step
\* of a run whose primary build invocation exited with code 0; a run whose
\* primary build failed, timed out or was killed never changes it.
C21_CacheOnlyAfterBuildOk ==
  [][cachedLibrary' # cachedLibrary =>
       \E r \in RunIds : /\ runs[r].buildCode = "0"
                          /\ runs[r].pc = "upload_media"
                          /\ runs'[r].cacheSave \in {"saved", "copy_error"}]_vars

C21_Witness ==
  /\ cachedLibrary = "present"
  /\ \E r \in RunIds : runs[r].cacheSave = "saved" /\ runs[r].buildCode = "0"

\* C22: whatever the cache restore step ends with (no entry, entry kept out,
\* entry copied, copy error) and whatever the cache save step ends with
\* (skipped, saved, delete or copy error), the run goes on to its next step
\* with no error and the stored record of the job is not touched.
C22_CacheFailureNotFatal ==
  [][\A r \in RunIds :
       /\ (runs'[r].restore # runs[r].restore /\ runs'[r].restore # None) =>
            /\ runs'[r].pc = "unity_build_wait"
            /\ runs'[r].err = None
            /\ "library_cache_restore" \in runs'[r].steps
            /\ projects' = projects
       /\ (runs'[r].cacheSave # runs[r].cacheSave /\ runs'[r].cacheSave # None) =>
            /\ runs'[r].pc \in {"ffmpeg_wait", "publish"}
            /\ runs'[r].err = None
            /\ "library_cache_save" \in runs'[r].steps
            /\ projects' = projects]_vars

C22_Witness ==
  \E r \in RunIds : /\ runs[r].restore = "copy_error"
                     /\ runs[r].cacheSave = "saved"
                     /\ runs[r].pc = "final_save"

C24_VerifyBeforePublish ==
  [][/\ projectStorage' # projectStorage =>
          \E r \in RunIds : runs[r].pc = "publish" /\ "verify_output" \in runs'[r].steps
     /\ \A r \in RunIds :
          (runs[r].pc = "publish" /\ runs'[r].thrownAt = "verify_output") =>
            /\ runs[r].buildCode = "0"
            /\ runs'[r].err = (IF IsAndroidApk(runs[r].doc.buildTarget)
                               THEN ErrNoApk ELSE ErrNoIndex)
            /\ runs'[r].err \notin {UnityError(c) : c \in {"1", "null"}} \cup {ErrSpawn}
            /\ projectStorage' = projectStorage
            /\ runs'[r].dirty \cap ResultRefs = {}
            /\ runs'[r].pc = "catch"
     /\ \A r \in RunIds :
          (RunEndsWith(r, "catch") /\ runs[r].thrownAt = "verify_output") =>
            /\ projects'[runs[r].job].status = "failed"
            /\ projects'[runs[r].job].error = runs[r].err
            /\ \A f \in ResultRefs :
                 projects'[runs[r].job][f] = projects[runs[r].job][f]
            /\ projectStorage' = projectStorage]_vars

C24_Witness ==
  \E r \in RunIds : /\ runs[r].thrownAt = "verify_output"
                     /\ runs[r].pc = "catch"
                     /\ runs[r].buildCode = "0"
                     /\ projectStorage = {}

\* C25: when a run for the web target saves ready, every file of the output
\* directory is in the store under <job id>/<target>/<relative path>, the zip
\* of the directory is in the store, and the entry-point and archive
\* references saved with the record are keys of those objects.
C25_WebOutputStored ==
  [][\A r \in RunIds :
       (RunEndsWith(r, "final_save") /\ ~IsAndroidApk(runs[r].doc.buildTarget)) =>
         LET j == runs[r].job
             p == projects'[j]
         IN /\ p.status = "ready"
            /\ \A i \in 1..Len(OutFiles) :
                 j \o "/" \o runs[r].doc.buildTarget \o "/" \o OutFiles[i]
                   \in projectStorage
            /\ j \o ".zip" \in projectStorage
            /\ p.webglIndexStorageKey = j \o "/" \o runs[r].doc.buildTarget
                                           \o "/index.html"
            /\ p.webglIndexStorageKey \in projectStorage
            /\ p.webglZipStorageKey = j \o ".zip"
            /\ p.resultStorageKey = j \o ".zip"]_vars

C25_Witness ==
  \E j \in JobIds : /\ projects[j].status = "ready"
                     /\ projects[j].buildTarget = "webgl"
                     /\ projects[j].webglZipStorageKey \in projectStorage
                     /\ projects[j].webglIndexStorageKey \in projectStorage

\* ------------------------------------------------------ root discovery
NextRoot ==
  \/ \E j \in JobIds : CreateFromTemplate(j)
  \/ \E r \in RunIds : RunBuild_Find(r)
  \/ \E r \in RunIds : RunBuild_SaveRunning(r)
  \/ \E r \in RunIds : RunBuild_Workdir(r)
  \/ \E r \in RunIds, tree \in Trees : RunBuild_Prepare(r, tree, FALSE, FALSE)

SpecRoot == Init /\ [][NextRoot]_vars

\* C26 (as stated): if some directory at depth 0 to 3 has the three markers,
\* the discovered root is such a directory of minimal depth and, among those
\* of that depth, the first in left-to-right order.
C26_ShallowestFirst ==
  \A r \in RunIds :
    LET found == runs[r].unityRoot
        cands == {d \in runs[r].tree.match : Len(d) <= MaxDepth}
        Before(a, b) == \/ Len(a) < Len(b)
                        \/ a = b
                        \/ /\ Len(a) = Len(b)
                           /\ \E k \in 1..Len(a) :
                                /\ a[k] < b[k]
                                /\ \A i \in 1..(k - 1) : a[i] = b[i]
    IN cands # {} => found \in cands /\ \A d \in cands : Before(found, d)

\* C26 (amended): the same, counting only the directories that are not named
\* __MACOSX and do not lie below a directory named __MACOSX.
C26_ShallowestFirstOutsideMacosx ==
  \A r \in RunIds :
    LET found == runs[r].unityRoot
        Inside(d) == \E k \in 1..Len(d) : SubSeq(d, 1, k) \in runs[r].tree.macosx
        cands == {d \in runs[r].tree.match : Len(d) <= MaxDepth /\ ~Inside(d)}
        Before(a, b) == \/ Len(a) < Len(b)
                        \/ a = b
                        \/ /\ Len(a) = Len(b)
                           /\ \E k \in 1..Len(a) :
                                /\ a[k] < b[k]
                                /\ \A i \in 1..(k - 1) : a[i] = b[i]
    IN cands # {} => found \in cands /\ \A d \in cands : Before(found, d)

C26_Witness ==
  \E r \in RunIds : /\ runs[r].pc = "unity_build_wait"
                     /\ runs[r].tree.macosx = {<<1>>}
                     /\ runs[r].tree.match = {<<1, 1>>, <<2, 2>>}
                     /\ runs[r].unityRoot = <<2, 2>>

\* ------------------------------------------------------ scenario A
\* One run to its end.  Every continuation of runBuild that is ready runs
\* (the event loop of Node serves every settled promise and every emitted
\* event); a live external process ends: the two tool invocations by the
\* premise of the scenario, the encoder because it works on a finite
\* sequence of frames.
SpecScenarioA ==
  /\ Init
  /\ [][NextOneRun]_vars
  /\ \A r \in RunIds :
       /\ WF_vars(RunBuild_Find(r))
       /\ WF_vars(RunBuild_SaveRunning(r))
       /\ WF_vars(RunBuild_Workdir(r))
       /\ WF_vars(RunBuild_Prepare(r, TopLevelTree, FALSE, FALSE))
       /\ WF_vars(ChildExit(r, "0"))
       /\ WF_vars(UnityClose(r))
       /\ WF_vars(RunBuild_Capture(r))
       /\ WF_vars(RunBuild_UploadMedia(r, FALSE))
       /\ WF_vars(FfmpegClose(r))
       /\ WF_vars(RunBuild_Publish(r, 0))
       /\ WF_vars(RunBuild_FinalSave(r))

NonEmptyLines(text) == SelectSeq(text, LAMBDA l : l \notin {"", "  "})

\* lines 1962-1970: takeLastLine on the state p of one runUnity call
TakeLastLine(p, text) ==
  LET lines == NonEmptyLines(text)
  IN IF lines # <<>>
     THEN Persist([p EXCEPT !.lastLogLine = lines[Len(lines)]], FALSE)
     ELSE [p |-> p, write |-> FALSE]

\* lines 1982-1991: a chunk of lines arrives on stdout or stderr of a
\* running Unity process: takeLastLine
StdoutData(r, text) ==
  /\ child[r].st = "alive"
  /\ child[r].stage \in UnityStages
  /\ LET res == TakeLastLine(persist[r], text)
     IN /\ persist' = [persist EXCEPT ![r] = res.p]
        /\ projects' = IF res.write
                       THEN [projects EXCEPT ![runs[r].job].buildLogLastLine =
                                               res.p.lastLogLine]
                       ELSE projects
  /\ UNCHANGED <<template, runs, child, activeBuildProcesses, cancelReq, rebuildReq,
                 cancelsDone, rebuildsDone, overlapped,
                 aiUnityConfig, lastRequest, updatesDone,
                 cachedLibrary, cacheFiles, projectStorage, readyWithLibrary, now,
                 lastReply, faults>>

\* lines 1949-1952: the timer armed by persist() is due
PersistTimer(r) ==
  /\ persist[r].persistTimer # 0
  /\ now >= persist[r].persistTimer
  /\ LET res == Persist([persist[r] EXCEPT !.persistTimer = 0], TRUE)
     IN /\ persist' = [persist EXCEPT ![r] = IF child[r] = NoChild
                                             THEN AfterClose(res.p) ELSE res.p]
        /\ projects' = IF res.write
                       THEN [projects EXCEPT ![runs[r].job].buildLogLastLine =
                                               res.p.lastLogLine]
                       ELSE projects
  /\ UNCHANGED <<template, runs, child, activeBuildProcesses, cancelReq, rebuildReq,
                 cancelsDone, rebuildsDone, overlapped,
                 aiUnityConfig, lastRequest, updatesDone,
                 cachedLibrary, cacheFiles, projectStorage, readyWithLibrary, now,
                 lastReply, faults>>

\* time passes; a timer that is due fires before time passes further
Tick ==
  /\ now < MaxTime
  /\ \A r \in RunIds : persist[r].persistTimer = 0 \/ now < persist[r].persistTimer
  /\ now' = now + TickMs
  /\ UNCHANGED <<template, projects, runs, child, activeBuildProcesses, cancelReq, rebuildReq,
                 cancelsDone, rebuildsDone, overlapped,
                 aiUnityConfig, lastRequest, updatesDone,
                 cachedLibrary, cacheFiles, projectStorage, readyWithLibrary, persist,
                 lastReply, faults>>

\* chunks of output: whole lines, some of them blank
Chunks == {<<"Compiling scripts">>, <<"Build succeeded", "">>, <<"", "  ">>}

NextThrottle ==
  \/ \E j \in JobIds : CreateFromTemplate(j)
  \/ \E r \in RunIds : RunBuild_Find(r)
  \/ \E r \in RunIds : RunBuild_SaveRunning(r)
  \/ \E r \in RunIds : RunBuild_Workdir(r)
  \/ \E r \in RunIds : RunBuild_Prepare(r, TopLevelTree, FALSE, FALSE)
  \/ \E r \in RunIds, text \in Chunks : StdoutData(r, text)
  \/ \E r \in RunIds : PersistTimer(r)
  \/ Tick
  \/ \E r \in RunIds, code \in {"0", "1"} : ChildExit(r, code)
  \/ \E r \in RunIds : UnityClose(r)

SpecThrottle == Init /\ [][NextThrottle]_vars

\* C29: while the process of a tool invocation is running, two successive
\* writes of the last log line within that invocation are at least one
\* second apart.
C29_OneWritePerSecond ==
  [][\A r \in RunIds :
       (/\ child[r].st = "alive"
        /\ persist[r].lastPersistAt # 0
        /\ persist'[r].lastPersistAt # persist[r].lastPersistAt
        /\ persist'[r].lastPersistAt # 0) =>
         persist'[r].lastPersistAt - persist[r].lastPersistAt >= ThrottleMs]_vars

\* C30: once a cancel request has been accepted (and no rebuild follows), the
\* run of the job starts no external process and puts no build output to
\* the store.
C30_CancelStopsRun ==
  [][(lastReply.op = "cancel" /\ lastReply.accepted /\ NoRebuild) =>
       /\ \A r \in RunIds : child'[r].st = "alive" => child[r].st = "alive"
       /\ projectStorage' = projectStorage]_vars

\* ------------------------------------------------------ concurrent saves
\* One template that ships no Library directory and whose manifest pins the
\* wanted version or another one; every primary build leaves a Library.
\* library_cache_save at the grain of its awaits (lines 2077-2080): rm of the
\* entry, then cp, which writes the directory file by file (two files here).
\* lib: the primary build left a Library directory in the project.
CacheSave_Rm(r, lib) ==
  /\ RunAt(r, "upload_media")
  /\ child[r] = NoChild
  /\ runs[r].cacheSave = None
  /\ runs[r].library \/ lib
  /\ cachedLibrary' = "absent"
  /\ cacheFiles' = <<0, 0>>
  /\ runs' = [runs EXCEPT ![r].library = TRUE, ![r].cacheSave = "rm_done",
                           ![r].closedReplaced = FALSE]
  /\ UNCHANGED <<template, projects, child, activeBuildProcesses, cancelReq, rebuildReq,
                 cancelsDone, rebuildsDone, overlapped,
                 aiUnityConfig, lastRequest, updatesDone,
                 projectStorage, readyWithLibrary, now, persist, lastReply, faults>>

\* line 2080: cp writes its next file over whatever the entry holds
CacheSave_Cp(r) ==
  /\ RunAt(r, "upload_media")
  /\ runs[r].cacheSave \in {"rm_done", "cp_1"}
  /\ IF runs[r].cacheSave = "rm_done"
     THEN /\ cacheFiles' = [cacheFiles EXCEPT ![1] = r]
          /\ cachedLibrary' = "partial"
          /\ runs' = [runs EXCEPT ![r].cacheSave = "cp_1"]
     ELSE /\ cacheFiles' = [cacheFiles EXCEPT ![2] = r]
          /\ cachedLibrary' = IF cacheFiles[1] = 0 THEN "partial" ELSE "present"
          /\ runs' = [runs EXCEPT ![r].cacheSave = "saved"]
  /\ UNCHANGED <<template, projects, child, activeBuildProcesses, cancelReq, rebuildReq,
                 cancelsDone, rebuildsDone, overlapped,
                 aiUnityConfig, lastRequest, updatesDone,
                 projectStorage, readyWithLibrary, now, persist, lastReply, faults>>

NextCacheRace ==
  \/ \E j \in JobIds : CreateFromTemplate(j)
  \/ \E r \in RunIds : RunBuild_Find(r)
  \/ \E r \in RunIds : RunBuild_SaveRunning(r)
  \/ \E r \in RunIds : RunBuild_Workdir(r)
  \/ \E r \in RunIds, pin \in BOOLEAN :
       RunBuild_Prepare(r, TopLevelTree, FALSE, pin)
  \/ \E r \in RunIds : RunBuild_Capture(r)
  \/ \E r \in RunIds : CacheSave_Rm(r, TRUE)
  \/ \E r \in RunIds : CacheSave_Cp(r)
  \/ \E r \in RunIds : RunBuild_UploadMedia(r, TRUE)
  \/ \E r \in RunIds : RunBuild_Publish(r, 0)
  \/ \E r \in RunIds : RunBuild_FinalSave(r)
  \/ \E r \in RunIds : RunBuild_CatchSave(r)
  \/ \E r \in RunIds : RunBuild_Finally(r)
  \/ \E r \in RunIds, code \in {"0", "1"} : ChildExit(r, code)
  \/ \E r \in RunIds : ChildError(r)
  \/ \E r \in RunIds : UnityClose(r)
  \/ \E r \in RunIds : FfmpegClose(r)
  \/ \E j \in JobIds : Rebuild_Find(j)
  \/ \E j \in JobIds : Rebuild_Save(j)

SpecCacheRace == Init /\ [][NextCacheRace]_vars

\* C32: when no save is in progress and the entry is complete, all its files
\* were written by one run; a run that completes its save while no other
\* save is in progress leaves its own files; and a restore copies the entry
\* only while no save is in progress.
C32_SaveIsAtomic ==
  [][LET Saving(rs, r) == rs[r].cacheSave \in {"rm_done", "cp_1"}
     IN /\ ((\A r \in RunIds : ~Saving(runs', r)) /\ cachedLibrary' = "present") =>
             \E r \in RunIds : cacheFiles' = <<r, r>>
        /\ \A r \in RunIds :
             (/\ runs[r].cacheSave # "saved" /\ runs'[r].cacheSave = "saved"
              /\ \A r2 \in RunIds : ~Saving(runs', r2)) => cacheFiles' = <<r, r>>
        /\ \A r \in RunIds :
             (runs[r].restore = None /\ runs'[r].restore = "copied") =>
               \A r2 \in RunIds : ~Saving(runs, r2)]_vars

\* ------------------------------------------------------ dependency pin
\* C31: when ensure_burst changed the pin of a run, the sandbox holds neither
\* packages-lock.json nor Library/PackageCache when that run's primary build
\* is spawned.
C31_PinChangeInvalidates ==
  [][\A r \in RunIds :
       (/\ runs[r].pc = "prepare" /\ runs'[r].pc = "unity_build_wait"
        /\ runs'[r].changedBurst) =>
         ~runs'[r].lockFile /\ ~runs'[r].packageCache]_vars

\* ------------------------------------------------------ error summary
\* One tool invocation that prints on stdout, on stderr or on both, lines
\* that match a pattern and lines that match none; the longest output has
\* its matching line before the last TailLines lines.
\* lines 1982-1991: the data handlers have run for the chunks that make up
\* out and err: stdout += s, stderr += s, takeLastLine(s)
ChildOutput(r, out, err) ==
  /\ child[r].st = "alive"
  /\ child[r].stage \in UnityStages
  /\ persist[r].stdout = <<>> /\ persist[r].stderr = <<>>
  /\ out # <<>> \/ err # <<>>
  /\ LET res == Persist([persist[r] EXCEPT !.stdout = out, !.stderr = err,
                                           !.lastLogLine = "log line"], FALSE)
     IN /\ persist' = [persist EXCEPT ![r] = res.p]
        /\ projects' = IF res.write
                       THEN [projects EXCEPT ![runs[r].job].buildLogLastLine = "log line"]
                       ELSE projects
  /\ UNCHANGED <<template, runs, child, activeBuildProcesses, cancelReq, rebuildReq,
                 cancelsDone, rebuildsDone, overlapped,
                 aiUnityConfig, lastRequest, updatesDone,
                 cachedLibrary, cacheFiles, projectStorage, readyWithLibrary, now,
                 lastReply, faults>>

NextSummary ==
  \/ \E j \in JobIds : CreateFromTemplate(j)
  \/ \E r \in RunIds : RunBuild_Find(r)
  \/ \E r \in RunIds : RunBuild_SaveRunning(r)
  \/ \E r \in RunIds : RunBuild_Workdir(r)
  \/ \E r \in RunIds : RunBuild_Prepare(r, TopLevelTree, FALSE, FALSE)
  \/ \E r \in RunIds,
        out \in {<<>>, <<"Refreshing native plugins">>,
                 <<"Game.cs(3,7): error CS0246">>,
                 <<"Game.cs(3,7): error CS0246", "Refreshing native plugins">>,
                 <<"Game.cs(3,7): error CS0246">> \o
                   [i \in 1..TailLines |-> "Refreshing native plugins"]},
        err \in {<<>>, <<"Fontconfig warning">>, <<"NullReferenceException">>,
                 <<"Fontconfig warning", "NullReferenceException">>} :
       ChildOutput(r, out, err)
  \/ \E r \in RunIds, code \in {"0", "1"} : ChildExit(r, code)
  \/ \E r \in RunIds : TimeoutKill(r)
  \/ \E r \in RunIds : UnityClose(r)
  \/ \E r \in RunIds : RunBuild_CatchSave(r)

SpecSummary == Init /\ [][NextSummary]_vars

\* C33: when a tool invocation closes with a non-zero code, the error is
\* built from the lines that match a pattern among the last TailLines lines
\* of stdout and of stderr, whichever stream they were printed on, or from
\* the raw tail if none matches, and it holds at most SummaryLines lines.
C33_SummaryOfBothStreams ==
  [][\A r \in RunIds :
       (/\ runs[r].pc # "catch" /\ runs'[r].pc = "catch"
        /\ runs'[r].thrownAt \in UnityStages
        /\ child[r].st = "exited") =>
         LET Lines(seq) == {seq[i] : i \in 1..Len(seq)}
             tail == Lines(LastLines(persist[r].stdout, TailLines))
                       \cup Lines(LastLines(persist[r].stderr, TailLines))
             matching == {l \in tail : IsInteresting(l)}
             reported == Lines(runs'[r].summary)
         IN /\ Len(runs'[r].summary) <= SummaryLines
            /\ matching # {} => reported = matching
            /\ matching = {} => reported \subseteq tail /\ (tail # {} => reported # {})]_vars
\* ---------------------------------------------------- terminal statuses
\* a run that has been started and has reached neither its catch nor its
\* finally block, where it only stores the failure and removes its sandbox
StillExecuting(r) == runs[r].pc \notin {"idle", "done", "finally", "catch"}

\* C34: whenever the stored status of a job is ready or failed, no run of
\* that job is still executing pipeline steps and no external process
\* spawned for that job is alive.
C34_TerminalMeansQuiet ==
  \A j \in JobIds :
    (projects[j].exists /\ projects[j].status \in {"ready", "failed"}) =>
      \A r \in RunIds :
        runs[r].job = j => ~StillExecuting(r) /\ child[r].st # "alive"

\* -------------------------------------------------------- handle map
\* C35: an entry of the handle map names a process that has not closed yet;
\* when a process closes, its own entry is removed, and an entry that
\* belongs to another process of the same job id is left in place.
C35_EntryOnlyWhileOpen ==
  [][\A j \in JobIds :
       LET h == activeBuildProcesses[j]
           h2 == activeBuildProcesses'[j]
       IN /\ h2 # NoHandle =>
               child'[h2[1]].stage = h2[2] /\ child'[h2[1]] # NoChild
          /\ \A r \in RunIds :
               (runs[r].job = j /\ child[r] # NoChild /\ child'[r] = NoChild) =>
                  h2 = IF h = <<r, child[r].stage>> THEN NoHandle ELSE h]_vars

\* the process of one run closed while the map held the handle of another
\* run's process, and that other process is still registered and alive
C35_Witness ==
  \E r \in RunIds :
    /\ runs[r].closedReplaced
    /\ LET h == activeBuildProcesses[runs[r].job]
       IN h # NoHandle /\ h[1] # r /\ child[h[1]].st = "alive"

\* ------------------------------------------------- last line at close
\* C36: when a tool invocation closes, the last non-empty line it has
\* observed is written as the last log line by the close handler, also when
\* the throttle had deferred it, and once the close handler has run no timer
\* of that invocation is pending.
C36_FinalLineAtClose ==
  [][\A r \in RunIds :
       (child[r].st = "exited" /\ child'[r] = NoChild) =>
         /\ persist[r].lastLogLine # "" =>
              projects'[runs[r].job].buildLogLastLine = persist[r].lastLogLine
         /\ persist'[r].persistTimer = 0]_vars

\* the close handler found the timer pending (the last line was deferred by
\* the throttle) and the stored line is the one that chunk ended with
C36_Witness ==
  \E r \in RunIds :
    /\ runs[r].clearedTimer
    /\ child[r] = NoChild
    /\ projects[runs[r].job].buildLogLastLine = "Build succeeded"

\* ------------------------------------------------------ template upload
\* uploadTemplate lines 243-254: the record is created public, with the
\* placeholder as its storageKey
UploadTemplate_Create ==
  /\ template.upload = "idle"
  /\ ~template.exists
  /\ template' = [template EXCEPT !.exists = TRUE, !.isPublic = TRUE,
                                  !.storageKey = Placeholder, !.doc = Placeholder,
                                  !.upload = "put"]
  /\ UNCHANGED <<projects, runs, child, activeBuildProcesses, cancelReq, rebuildReq,
                 cancelsDone, rebuildsDone, overlapped,
                 aiUnityConfig, lastRequest, updatesDone,
                 cachedLibrary, cacheFiles, projectStorage, readyWithLibrary, now,
                 persist, lastReply, faults>>

\* lines 256-259: putBuffer of the archive, then created.storageKey = key on
\* the in-memory document; a putBuffer that throws ends the call
UploadTemplate_Put(ok) ==
  /\ template.upload = "put"
  /\ IF ok THEN NoFault ELSE Inject
  /\ template' = IF ok
                 THEN [template EXCEPT !.archive = TRUE, !.doc = ArchiveKey,
                                       !.upload = "media"]
                 ELSE [template EXCEPT !.upload = "failed"]
  /\ UNCHANGED <<projects, runs, child, activeBuildProcesses, cancelReq, rebuildReq,
                 cancelsDone, rebuildsDone, overlapped,
                 aiUnityConfig, lastRequest, updatesDone,
                 cachedLibrary, cacheFiles, projectStorage, readyWithLibrary, now,
                 persist, lastReply>>

\* lines 261-832: the media uploads and the automatic media generation
\* (awaited, failures swallowed), then created.save()
UploadTemplate_Save ==
  /\ template.upload = "media"
  /\ template' = [template EXCEPT !.storageKey = template.doc, !.upload = "done"]
  /\ UNCHANGED <<projects, runs, child, activeBuildProcesses, cancelReq, rebuildReq,
                 cancelsDone, rebuildsDone, overlapped,
                 aiUnityConfig, lastRequest, updatesDone,
                 cachedLibrary, cacheFiles, projectStorage, readyWithLibrary, now,
                 persist, lastReply, faults>>

\* one template is uploaded while jobs are created and built
InitUpload == InitBuild /\ template = NoTemplate

NextUpload ==
  \/ UploadTemplate_Create
  \/ \E ok \in BOOLEAN : UploadTemplate_Put(ok)
  \/ UploadTemplate_Save
  \/ NextOneRun

SpecUpload == InitUpload /\ [][NextUpload]_vars

\* C37: a job is created only against a template whose archive is stored
\* and whose storageKey points to that archive, never against one whose
\* storageKey is still the placeholder.
C37_SelectableIsStored ==
  [][\A j \in JobIds :
       (~projects[j].exists /\ projects'[j].exists) =>
          /\ template.storageKey # Placeholder
          /\ TemplateReadable]_vars

\* --------------------------------------------------------- download URL
\* line 408: (target || '').toString().trim().toLowerCase()
NormalTarget(target) ==
  IF target = " WebGL" THEN "webgl"
  ELSE IF target = "Android_APK" THEN "android_apk"
  ELSE target

\* lines 409-414: the key the URL is made of
Desired(p, target) ==
  LET t == NormalTarget(target)
  IN IF t = "android_apk" \/ t = "android"
     THEN IF p.androidApkStorageKey # None THEN p.androidApkStorageKey
          ELSE p.resultStorageKey
     ELSE IF t = "webgl"
     THEN IF p.webglZipStorageKey # None THEN p.webglZipStorageKey
          ELSE p.resultStorageKey
     ELSE p.resultStorageKey

\* getDownloadUrl (lines 400-422): NotFound, 'Project not ready' and
\* 'Artifact not available' are answered without a URL
GetDownloadUrl(j, target) ==
  /\ lastReply' =
       IF projects[j].exists /\ projects[j].status = "ready"
          /\ Desired(projects[j], target) # None
       THEN [op |-> "download", status |-> projects[j].status, accepted |-> TRUE,
             killed |-> FALSE, target |-> NormalTarget(target),
             key |-> Desired(projects[j], target)]
       ELSE [op |-> "download", status |-> projects[j].status, accepted |-> FALSE,
             killed |-> FALSE, target |-> NormalTarget(target), key |-> None]
  /\ UNCHANGED <<template, projects, runs, child, activeBuildProcesses, cancelReq,
                 rebuildReq, cancelsDone, rebuildsDone, overlapped,
                 aiUnityConfig, lastRequest, updatesDone,
                 cachedLibrary, cacheFiles, projectStorage, readyWithLibrary, now,
                 persist, faults>>

\* one job, built for the web or for Android, whose download URL is asked
\* for with no target, with either target, in any spelling
NextDownload ==
  \/ NextOneRun
  \/ \E j \in JobIds,
        target \in {"", "webgl", " WebGL", "android", "android_apk", "Android_APK"} :
       GetDownloadUrl(j, target)

SpecDownload == Init /\ [][NextDownload]_vars

\* C38: getDownloadUrl answers with a URL only for a job that is ready, and
\* with a target given the URL is that of the artifact built for that
\* target: the archive for the web target, the package for Android.
C38_UrlOfAskedTarget ==
  (lastReply.op = "download" /\ lastReply.accepted) =>
    /\ lastReply.status = "ready"
    /\ lastReply.target = "webgl" => \E j \in JobIds : lastReply.key = ZipKey(j)
    /\ IsAndroidApk(lastReply.target) => \E j \in JobIds : lastReply.key = ApkKey(j)

\* --------------------------------------------------- runtimeConfig bag
\* C39: in an ai/create request, a config field that is given only inside
\* runtimeConfig, and not as a field of the request itself, reaches
\* createFromAi as the caller's value and is the value stored, before the
\* drafted value and the fallback.
C39_BagValueIsCallers ==
  [][\A j \in JobIds, f \in CfgFields :
       (/\ ~projects[j].exists /\ projects'[j].exists
        /\ lastRequest' # lastRequest
        /\ lastRequest'.op = "createFromAi"
        /\ lastRequest'.body[f] = Undefined
        /\ Present(lastRequest'.bag[f], f)) =>
         /\ lastRequest'.cfg[f] = lastRequest'.bag[f]
         /\ aiUnityConfig'[j][f] = lastRequest'.bag[f]]_vars

====
